---- MODULE Spec2Model ----
(***************************************************************************)
(* Model of the OpenAPI -> MCP generator core: description sanitization,   *)
(* reference resolution, parameter type inference, the tool and resource   *)
(* definition builders, in their modular form                              *)
(* (openapi_mcp_generator/parser.py, openapi_mcp_generator/generators.py)  *)
(* and in their inlined form (generator.py, mcp_generator.py), the         *)
(* generation of a project: its directory, template context, renders and   *)
(* permission changes, and the document loaders (parse_openapi_spec,       *)
(* openapi_parser.py).                                                     *)
(*                                                                         *)
(* Python values are records [k, v]: k is the kind ("map", "list", "str",  *)
(* "null"), v the content. A mapping is the sequence of its <<key, value>> *)
(* pairs in insertion order. A string value is the sequence of its tokens: *)
(* a token is one character that matters to the code ("#", "/", NL, CR,    *)
(* QUOTE, BSLASH, SP) or a run of characters that are none of these.       *)
(* Mapping keys are plain strings; a token sequence is compared with a key *)
(* through Join.                                                           *)
(***************************************************************************)
EXTENDS Integers, Sequences, FiniteSets, TLC

VARIABLES pc, doc, result, desc, once, twice, param, ptype, ref, resolved,
          resources, args, project_dir, built, context, calls, dirs, files,
          openapi_file, load

\* the state of a project generation run: its arguments, the project
\* directory, what the two builders returned, the template context, the calls
\* made to the renderer and the file system, the directories requested so far
\* and the paths of the files written so far
projectVars == <<args, project_dir, built, context, calls, dirs, files>>

\* the file handed to a loader and what the loader did with it
loaderVars == <<openapi_file, load>>

vars == <<pc, doc, result, desc, once, twice, param, ptype, ref, resolved, resources,
          projectVars, loaderVars>>

\* ------------------------------------------------------------ bounds
MaxDescLen == 3

\* ------------------------------------------------------------ values
M(pairs) == [k |-> "map", v |-> pairs]

L(items) == [k |-> "list", v |-> items]

S(tokens) == [k |-> "str", v |-> tokens]

Null == [k |-> "null", v |-> <<>>]

EmptyMap == M(<<>>)

None == [k |-> "none", v |-> <<>>]

\* no project generation run has started
NoProject ==
  /\ args = None /\ project_dir = <<>> /\ built = None /\ context = None
  /\ calls = <<>> /\ dirs = <<>> /\ files = {}

toolVars == <<doc, result, desc, once, twice, param, ptype, ref, resolved, resources>>

\* no loader has been handed a file
NoLoader == openapi_file = None /\ load = None

IsMap(x) == x.k = "map"

IsStr(x) == x.k = "str"

HasKey(m, key) == \E i \in 1..Len(m.v) : m.v[i][1] = key

Lookup(m, key) == m.v[CHOOSE i \in 1..Len(m.v) : m.v[i][1] = key][2]

RECURSIVE Join(_)
Join(tokens) == IF tokens = <<>> THEN "" ELSE Head(tokens) \o Join(Tail(tokens))

\* Python truthiness: None, "", [] and {} are false.
Truthy(x) == x.k # "null" /\ x.v # <<>>

\* `key in x`: "yes", "no", or "raise" (TypeError: not iterable).
In(key, x) ==
  CASE x.k = "map" -> IF HasKey(x, key) THEN "yes" ELSE "no"
    [] x.k = "list" -> IF \E i \in 1..Len(x.v) : x.v[i].k = "str" /\ Join(x.v[i].v) = key
                       THEN "yes" ELSE "no"
    [] x.k = "str" -> IF \E i \in 1..Len(x.v) : x.v[i] = key THEN "yes" ELSE "no"
    [] OTHER -> "raise"

\* ------------------------------------------------------------ sanitize
NL == "NL"

CR == "CR"

QUOTE == "QUOTE"

BSLASH == "BSLASH"

SP == " "

DescAlphabet == {"a", NL, CR, QUOTE, BSLASH, SP}

RECURSIVE Replace(_, _, _)
\* str.replace(old, new) for a one-character old
Replace(s, old, new) ==
  IF s = <<>> THEN <<>>
  ELSE (IF Head(s) = old THEN new ELSE <<Head(s)>>) \o Replace(Tail(s), old, new)

\* mutants of SanitizeText
SanitizeText_EscapeBackslash(s) ==
  Replace(Replace(Replace(s, NL, <<SP>>), BSLASH, <<BSLASH, BSLASH>>), QUOTE, <<BSLASH, QUOTE>>)

SanitizeText_DropNewline(s) == Replace(Replace(s, NL, <<>>), QUOTE, <<BSLASH, QUOTE>>)

\* desc.replace("\n", " ").replace('"', '\\"')
SanitizeText(s) == Replace(Replace(s, NL, <<SP>>), QUOTE, <<BSLASH, QUOTE>>)

\* parser.sanitize_description: a falsy argument gives "", any other must be a str
sanitize_description(d) ==
  IF ~Truthy(d) THEN [st |-> "ok", text |-> <<>>]
  ELSE IF IsStr(d) THEN [st |-> "ok", text |-> SanitizeText(d.v)]
  ELSE [st |-> "raise", text |-> <<>>]

\* generator.sanitize_description, MCPGenerator.sanitize_description: no guard
sanitize_description_inline(d) ==
  IF IsStr(d) THEN [st |-> "ok", text |-> SanitizeText(d.v)]
  ELSE [st |-> "raise", text |-> <<>>]

\* the argument of @mcp.tool(description="...") as it stands in the generated line
Embed(text) == <<QUOTE>> \o text \o <<QUOTE>>

RECURSIVE SeqsUpTo(_, _)
SeqsUpTo(A, n) ==
  IF n = 0 THEN {<<>>}
  ELSE LET shorter == SeqsUpTo(A, n - 1)
       IN  shorter \cup {Append(s, a) : s \in shorter, a \in A}

Descriptions == SeqsUpTo(DescAlphabet, MaxDescLen)

InitSanitize ==
  /\ pc = "desc"
  /\ desc \in Descriptions
  /\ once = <<>> /\ twice = <<>>
  /\ doc = None /\ result = None /\ param = None /\ ptype = "" /\ ref = <<>> /\ resolved = None
  /\ resources = None /\ NoProject /\ NoLoader

\* sanitize_description applied to a description, and to its own result
Sanitize ==
  /\ pc = "desc"
  /\ pc' = "sanitized"
  /\ once' = sanitize_description(S(desc)).text
  /\ twice' = sanitize_description(S(sanitize_description(S(desc)).text)).text
  /\ UNCHANGED <<doc, result, desc, param, ptype, ref, resolved, resources, projectVars, loaderVars>>

\* ------------------------------------------------------------ resolve_reference
StripChars == {"#", "/"}

RECURSIVE LStrip(_)
LStrip(s) == IF s # <<>> /\ Head(s) \in StripChars THEN LStrip(Tail(s)) ELSE s

RECURSIVE RStrip(_)
RStrip(s) ==
  IF s # <<>> /\ s[Len(s)] \in StripChars THEN RStrip(SubSeq(s, 1, Len(s) - 1)) ELSE s

\* str.strip('#/'): every leading and every trailing '#' and '/' is removed
Strip(s) == RStrip(LStrip(s))

RECURSIVE Split(_)
\* str.split('/'): the segments between slashes; never an empty list
Split(s) ==
  IF \E i \in 1..Len(s) : s[i] = "/"
  THEN LET i == CHOOSE j \in 1..Len(s) : s[j] = "/" /\ \A h \in 1..(j - 1) : s[h] # "/"
       IN  <<SubSeq(s, 1, i - 1)>> \o Split(SubSeq(s, i + 1, Len(s)))
  ELSE <<s>>

RECURSIVE Walk(_, _, _)
\* resolved_obj = resolved_obj[part] for each part: a missing key of a mapping
\* is a KeyError, a str index into anything that is not a mapping a TypeError
Walk(obj, parts, i) ==
  IF i > Len(parts) THEN [st |-> "ok", obj |-> obj]
  ELSE IF ~IsMap(obj) THEN [st |-> "TypeError", obj |-> Null]
  ELSE IF ~HasKey(obj, Join(parts[i])) THEN [st |-> "KeyError", obj |-> Null]
  ELSE Walk(Lookup(obj, Join(parts[i])), parts, i + 1)

\* mutant of ResolveWalk: the walk stops one segment early
ResolveWalk_DropsLastSegment(spec, ref_path) ==
  IF ~IsStr(ref_path) THEN [st |-> "AttributeError", obj |-> Null, parts |-> <<>>]
  ELSE LET parts == Split(Strip(ref_path.v))
           w == Walk(spec, SubSeq(parts, 1, Len(parts) - 1), 1)
       IN  [st |-> w.st, obj |-> w.obj, parts |-> parts]

\* mutant of ResolveWalk: a $ref in the object reached is resolved in turn
ResolveWalk_FollowsRef(spec, ref_path) ==
  IF ~IsStr(ref_path) THEN [st |-> "AttributeError", obj |-> Null, parts |-> <<>>]
  ELSE LET parts == Split(Strip(ref_path.v))
           w == Walk(spec, parts, 1)
           next == IF w.st = "ok" /\ IsMap(w.obj) /\ HasKey(w.obj, "$ref")
                      /\ IsStr(Lookup(w.obj, "$ref"))
                   THEN Walk(spec, Split(Strip(Lookup(w.obj, "$ref").v)), 1)
                   ELSE w
       IN  [st |-> next.st, obj |-> next.obj, parts |-> parts]

\* the try block of resolve_reference, also inlined in generator.py and
\* mcp_generator.py; a ref_path that is no str has no strip()
ResolveWalk(spec, ref_path) ==
  IF ~IsStr(ref_path) THEN [st |-> "AttributeError", obj |-> Null, parts |-> <<>>]
  ELSE LET parts == Split(Strip(ref_path.v))
           w == Walk(spec, parts, 1)
       IN  [st |-> w.st, obj |-> w.obj, parts |-> parts]

\* parser.resolve_reference: only KeyError is caught, and gives {} and a warning
resolve_reference(spec, ref_path) ==
  LET w == ResolveWalk(spec, ref_path)
  IN  CASE w.st = "ok" -> [st |-> "ok", obj |-> w.obj, warn |-> 0, parts |-> w.parts]
        [] w.st = "KeyError" -> [st |-> "ok", obj |-> EmptyMap, warn |-> 1, parts |-> w.parts]
        [] OTHER -> [st |-> "raise", obj |-> Null, warn |-> 0, parts |-> w.parts]

MaxRefLen == 4

RefAlphabet == {"#", "/", "a", "b"}

Leaf(name) == S(<<name>>)

\* a document whose keys include the empty string and strings with '#'
RefDoc ==
  M(<< <<"a", M(<< <<"b", Leaf("a.b")>>, <<"", Leaf("a.")>>, <<"a#", Leaf("a.a#")>> >>)>>,
       <<"b", Leaf("b")>>,
       <<"", M(<< <<"a", Leaf(".a")>> >>)>>,
       <<"#a", Leaf("#a")>> >>)

InitResolve ==
  /\ pc = "ref"
  /\ ref \in SeqsUpTo(RefAlphabet, MaxRefLen)
  /\ doc = RefDoc
  /\ resolved = None
  /\ result = None /\ param = None /\ ptype = "" /\ desc = <<>> /\ once = <<>> /\ twice = <<>>
  /\ resources = None /\ NoProject /\ NoLoader

\* resolve_reference(spec, ref_path) on one pointer
Resolve ==
  /\ pc = "ref"
  /\ pc' = "resolved"
  /\ resolved' = resolve_reference(doc, S(ref))
  /\ UNCHANGED <<doc, result, desc, once, twice, param, ptype, ref, resources, projectVars, loaderVars>>

\* ------------------------------------------------------------ _get_param_type
IsText(x, s) == x.k = "str" /\ x.v = <<s>>

\* mutant of _get_param_type: a path parameter is taken to be an integer id
get_param_type_ByLocation(p) ==
  IF HasKey(p, "in") /\ IsText(Lookup(p, "in"), "path") THEN "int"
  ELSE IF ~HasKey(p, "schema") THEN "str"
  ELSE LET schema == Lookup(p, "schema")
           t == IF HasKey(schema, "type") THEN Lookup(schema, "type") ELSE Leaf("string")
       IN  CASE IsText(t, "integer") -> "int"
             [] IsText(t, "number") -> "float"
             [] IsText(t, "boolean") -> "bool"
             [] OTHER -> "str"

\* generators._get_param_type (inlined in generator.py and mcp_generator.py);
\* p is a mapping; a schema that is not a mapping has no get()
get_param_type(p) ==
  IF ~HasKey(p, "schema") THEN "str"
  ELSE LET schema == Lookup(p, "schema")
       IN  IF ~IsMap(schema) THEN "raise"
           ELSE LET t == IF HasKey(schema, "type") THEN Lookup(schema, "type")
                         ELSE Leaf("string")
                IN  CASE IsText(t, "integer") -> "int"
                      [] IsText(t, "number") -> "float"
                      [] IsText(t, "boolean") -> "bool"
                      [] OTHER -> "str"

SchemaTypes == {"integer", "number", "boolean", "string", "array", "Integer", "int"}

Schemas ==
  {<<>>, << <<"schema", EmptyMap>> >>, << <<"schema", M(<< <<"format", Leaf("int64")>> >>)>> >>,
   << <<"schema", M(<< <<"type", Null>> >>)>> >>,
   << <<"schema", Null>> >>, << <<"schema", Leaf("integer")>> >>}
  \cup {<< <<"schema", M(<< <<"type", Leaf(t)>> >>)>> >> : t \in SchemaTypes}
  \cup {<< <<"schema", M(<< <<"type", Leaf(t)>>, <<"format", Leaf("int64")>> >>)>> >> :
          t \in SchemaTypes}

ParamObjects ==
  {M(<< <<"name", Leaf(n)>> >> \o loc \o req \o sch) :
     n \in {"limit", "integer"},
     loc \in {<<>>, << <<"in", Leaf("query")>> >>, << <<"in", Leaf("path")>> >>},
     req \in {<<>>, << <<"required", Leaf("true")>> >>, << <<"type", Leaf("integer")>> >>},
     sch \in Schemas}

InitType ==
  /\ pc = "param"
  /\ param \in ParamObjects
  /\ ptype = ""
  /\ doc = None /\ result = None /\ desc = <<>> /\ once = <<>> /\ twice = <<>>
  /\ ref = <<>> /\ resolved = None
  /\ resources = None /\ NoProject /\ NoLoader

\* _get_param_type(param) on one parameter object
InferType ==
  /\ pc = "param"
  /\ pc' = "typed"
  /\ ptype' = get_param_type(param)
  /\ UNCHANGED <<doc, result, desc, once, twice, param, ref, resolved, resources, projectVars, loaderVars>>

\* ------------------------------------------------------------ tool definitions
\* mutant of Methods: one of the five methods is forgotten
Methods_NoPatch == {"get", "post", "put", "delete"}

\* the methods an entry of a path item must be keyed by
Methods == {"get", "post", "put", "delete", "patch"}

\* method.upper()
Upper(method) ==
  CASE method = "get" -> "GET"
    [] method = "post" -> "POST"
    [] method = "put" -> "PUT"
    [] method = "delete" -> "DELETE"
    [] method = "patch" -> "PATCH"
    [] OTHER -> method

\* a value as an f-string interpolates it
Format(x) ==
  CASE x.k = "str" -> Join(x.v)
    [] x.k = "null" -> "None"
    [] x.k = "map" -> "{...}"
    [] OTHER -> "[...]"

\* what `for x in value` yields: the items of a list, the keys of a mapping, the
\* characters of a str (one token standing for one character); None is not iterable
Iterate(x) ==
  CASE x.k = "list" -> [st |-> "ok", items |-> x.v]
    [] x.k = "map" -> [st |-> "ok", items |-> [i \in 1..Len(x.v) |-> Leaf(x.v[i][1])]]
    [] x.k = "str" -> [st |-> "ok", items |-> [i \in 1..Len(x.v) |-> Leaf(x.v[i])]]
    [] OTHER -> [st |-> "raise", items |-> <<>>]

Raise(where, warned) == [st |-> "raise", at |-> where, defs |-> <<>>, warn |-> warned]

\* the one element of a singleton set: Only({F(x) : x \in {e}}) is F at x = e,
\* with e evaluated once
Only(set) == CHOOSE x \in set : TRUE

\* the inlined generators `continue` on a KeyError ("skip"), and let any other
\* exception leave the loop
ActualOfWalk(w) ==
  CASE w.st = "ok" -> [st |-> "ok", at |-> "", obj |-> w.obj, warn |-> 0]
    [] w.st = "KeyError" -> [st |-> "skip", at |-> "", obj |-> Null, warn |-> 1]
    [] OTHER -> [st |-> "raise", at |-> "resolve_reference", obj |-> Null, warn |-> 0]

\* the modular generator takes what resolve_reference returns: the object, or
\* {} after its warning
ActualOfResolved(r) ==
  IF r.st = "raise"
  THEN [st |-> "raise", at |-> "resolve_reference", obj |-> Null, warn |-> 0]
  ELSE [st |-> "ok", at |-> "", obj |-> r.obj, warn |-> r.warn]

\* the object a parameter entry stands for: the entry itself, or what its $ref
\* resolves to
ActualParam(spec, param_obj, modular) ==
  CASE In("$ref", param_obj) = "raise" ->
         [st |-> "raise", at |-> "parameter", obj |-> Null, warn |-> 0]
    [] In("$ref", param_obj) = "no" ->
         [st |-> "ok", at |-> "", obj |-> param_obj, warn |-> 0]
    [] ~IsMap(param_obj) ->
         [st |-> "raise", at |-> "parameter", obj |-> Null, warn |-> 0]
    [] modular ->
         Only({ActualOfResolved(r) : r \in {resolve_reference(spec, Lookup(param_obj, "$ref"))}})
    [] OTHER ->
         Only({ActualOfWalk(w) : w \in {ResolveWalk(spec, Lookup(param_obj, "$ref"))}})

\* the name check and the "name: type" pair of one actual parameter
ParamDefOf(a) ==
  CASE a.st = "raise" -> Raise(a.at, a.warn)
    [] a.st = "skip" -> [st |-> "ok", at |-> "", defs |-> <<>>, warn |-> a.warn]
    [] ~Truthy(a.obj) -> [st |-> "ok", at |-> "", defs |-> <<>>, warn |-> a.warn + 1]
    [] In("name", a.obj) = "raise" -> Raise("parameter", a.warn)
    [] In("name", a.obj) = "no" ->
         [st |-> "ok", at |-> "", defs |-> <<>>, warn |-> a.warn + 1]
    [] ~IsMap(a.obj) -> Raise("parameter", a.warn)
    [] get_param_type(a.obj) = "raise" -> Raise("schema", a.warn)
    [] OTHER ->
         [st |-> "ok", at |-> "",
          defs |-> << <<Format(Lookup(a.obj, "name")), get_param_type(a.obj)>> >>,
          warn |-> a.warn]

\* one pass of the parameter loop: the pair of one entry, a skip with its
\* warnings, or the exception that leaves the loop
ParamDef(spec, param_obj, modular) ==
  Only({ParamDefOf(a) : a \in {ActualParam(spec, param_obj, modular)}})

\* mutant of ParamsThen: each definition is put in front of the list
ParamsThen_Prepend(one, rest) ==
  IF one.st = "raise" THEN one
  ELSE IF rest.st = "raise" THEN Raise(rest.at, one.warn + rest.warn)
  ELSE [st |-> "ok", at |-> "", defs |-> rest.defs \o one.defs, warn |-> one.warn + rest.warn]

\* one pass followed by the rest of the loop
ParamsThen(one, rest) ==
  IF one.st = "raise" THEN one
  ELSE IF rest.st = "raise" THEN Raise(rest.at, one.warn + rest.warn)
  ELSE [st |-> "ok", at |-> "", defs |-> one.defs \o rest.defs, warn |-> one.warn + rest.warn]

RECURSIVE ParamLoop(_, _, _, _)
ParamLoop(spec, items, i, modular) ==
  IF i > Len(items) THEN [st |-> "ok", at |-> "", defs |-> <<>>, warn |-> 0]
  ELSE Only({ParamsThen(one, rest) :
               one \in {ParamDef(spec, items[i], modular)},
               rest \in {ParamLoop(spec, items, i + 1, modular)}})

\* mutant of get_parameter_definitions: the parameters of the path item come
\* before those of the operation
get_parameter_definitions_WithPathLevel(spec, operation, modular) ==
  LET paths == IF HasKey(spec, "paths") /\ IsMap(Lookup(spec, "paths"))
               THEN Lookup(spec, "paths").v ELSE <<>>
      holders == SelectSeq(paths, LAMBDA p :
                   /\ IsMap(p[2]) /\ HasKey(p[2], "parameters")
                   /\ Lookup(p[2], "parameters").k = "list"
                   /\ \E j \in 1..Len(p[2].v) : p[2].v[j][2] = operation)
      shared == IF holders = <<>> THEN <<>> ELSE Lookup(holders[1][2], "parameters").v
  IN  IF ~HasKey(operation, "parameters") THEN ParamLoop(spec, shared, 1, modular)
      ELSE IF Iterate(Lookup(operation, "parameters")).st = "raise" THEN Raise("parameters", 0)
      ELSE ParamLoop(spec, shared \o Iterate(Lookup(operation, "parameters")).items, 1, modular)

\* generators._get_parameter_definitions, and the same loop inlined in
\* generator.py and mcp_generator.py: operation.get('parameters', [])
get_parameter_definitions(spec, operation, modular) ==
  IF ~HasKey(operation, "parameters") THEN [st |-> "ok", at |-> "", defs |-> <<>>, warn |-> 0]
  ELSE IF Iterate(Lookup(operation, "parameters")).st = "raise" THEN Raise("parameters", 0)
  ELSE ParamLoop(spec, Iterate(Lookup(operation, "parameters")).items, 1, modular)

CtxParam == <<"ctx", "Context">>

NoTool(status, where, warned) == [st |-> status, at |-> where, tool |-> <<>>, warn |-> warned]

\* the fields the template of one tool definition interpolates
ToolOf(path, method, operation, d, ps) ==
  IF d.st = "raise" THEN NoTool("raise", "description", 0)
  ELSE IF ps.st = "raise" THEN NoTool("raise", ps.at, ps.warn)
  ELSE [st |-> "ok", at |-> "", warn |-> ps.warn,
        tool |-> << [id |-> Format(Lookup(operation, "operationId")),
                     description |-> d.text, docstring |-> d.text, method |-> method,
                     path |-> path,
                     params |-> Append(ps.defs, CtxParam)] >>]

\* mutant of GivenDescription: the method is not upper-cased
GivenDescription_MethodAsWritten(path, method, operation) ==
  IF HasKey(operation, "description") THEN Lookup(operation, "description")
  ELSE S(<<method, SP, path>>)

\* operation.get('description', f"{method.upper()} {path}")
GivenDescription(path, method, operation) ==
  IF HasKey(operation, "description") THEN Lookup(operation, "description")
  ELSE S(<<Upper(method), SP, path>>)

\* generators._generate_tool, and the body of the inlined loops: no tool
\* without an operationId key, otherwise one tool definition
generate_tool(spec, path, method, operation, modular) ==
  CASE In("operationId", operation) = "raise" -> NoTool("raise", "operation", 0)
    [] In("operationId", operation) = "no" -> NoTool("ok", "", 0)
    [] ~IsMap(operation) -> NoTool("raise", "operation", 0)
    [] OTHER ->
         Only({ToolOf(path, method, operation, d, ps) :
                 d \in {IF modular
                        THEN sanitize_description(GivenDescription(path, method, operation))
                        ELSE sanitize_description_inline(GivenDescription(path, method, operation))},
                 ps \in {get_parameter_definitions(spec, operation, modular)}})

RECURSIVE EntriesOf(_, _)
\* the (path, method, operation) triples in iteration order; a path item that
\* is no mapping has no items()
EntriesOf(paths, i) ==
  IF i > Len(paths) THEN <<>>
  ELSE LET path == paths[i][1]
           item == paths[i][2]
       IN  (IF IsMap(item)
            THEN [j \in 1..Len(item.v) |->
                    [bad |-> FALSE, path |-> path, method |-> item.v[j][1], op |-> item.v[j][2]]]
            ELSE <<[bad |-> TRUE, path |-> path, method |-> "", op |-> Null]>>)
           \o EntriesOf(paths, i + 1)

Aborted(where, warned) == [st |-> "raise", at |-> where, tools |-> <<>>, warn |-> warned]

\* one entry followed by the rest of the loop
ToolsThen(one, rest) ==
  IF one.st = "raise" THEN Aborted(one.at, one.warn)
  ELSE IF rest.st = "raise" THEN Aborted(rest.at, one.warn + rest.warn)
  ELSE [st |-> "ok", at |-> "", tools |-> one.tool \o rest.tools,
        warn |-> one.warn + rest.warn]

RECURSIVE ToolLoop(_, _, _, _)
ToolLoop(spec, es, i, modular) ==
  IF i > Len(es) THEN [st |-> "ok", at |-> "", tools |-> <<>>, warn |-> 0]
  ELSE IF es[i].bad THEN Aborted("path_item", 0)
  ELSE IF es[i].method \notin Methods THEN ToolLoop(spec, es, i + 1, modular)
  ELSE Only({ToolsThen(one, rest) :
               one \in {generate_tool(spec, es[i].path, es[i].method, es[i].op, modular)},
               rest \in {ToolLoop(spec, es, i + 1, modular)}})

\* generate_tool_definitions: the tool definitions in document order (the text
\* returned joins them, and is empty when there are none), the warnings
\* printed, or the exception that ends the run
generate_tool_definitions(spec, modular) ==
  IF ~HasKey(spec, "paths") THEN [st |-> "ok", at |-> "", tools |-> <<>>, warn |-> 0]
  ELSE IF ~IsMap(Lookup(spec, "paths")) THEN Aborted("paths", 0)
  ELSE ToolLoop(spec, EntriesOf(Lookup(spec, "paths").v, 1), 1, modular)

\* ------------------------------------------------------------ documents
MaxOps == 2

MaxParams == 3

Ptr(segments) ==
  LET RECURSIVE Slashed(_)
      Slashed(s) == IF s = <<>> THEN <<>> ELSE <<"/", Head(s)>> \o Slashed(Tail(s))
  IN  S(<<"#">> \o Slashed(segments))

RefTo(segments) == M(<< <<"$ref", Ptr(segments)>> >>)

IntegerSchema == M(<< <<"type", Leaf("integer")>> >>)

\* components.parameters.Id, a component that is itself a pointer to it, and
\* a component that points to itself
IdParam ==
  M(<< <<"name", Leaf("id")>>, <<"in", Leaf("path")>>, <<"schema", IntegerSchema>> >>)

PRefId == RefTo(<<"components", "parameters", "Id">>)

PRefSelf == RefTo(<<"components", "parameters", "Self">>)

Components ==
  M(<< <<"parameters",
         M(<< <<"Id", IdParam>>, <<"Chain", PRefId>>, <<"Self", PRefSelf>> >>)>> >>)

Info == M(<< <<"title", Leaf("Test API")>> >>)

Servers == L(<< M(<< <<"url", Leaf("http://localhost:8000/api")>> >>) >>)

PLimit ==
  M(<< <<"name", Leaf("limit")>>, <<"in", Leaf("query")>>, <<"schema", IntegerSchema>> >>)

PPlain == M(<< <<"name", Leaf("q")>> >>)

PRefMissing == RefTo(<<"components", "parameters", "Missing">>)

PRefThroughScalar == RefTo(<<"info", "title", "x">>)

PRefThroughList == RefTo(<<"servers", "0">>)

PRefChain == RefTo(<<"components", "parameters", "Chain">>)

PNoName == M(<< <<"in", Leaf("query")>> >>)

PNullSchema == M(<< <<"name", Leaf("x")>>, <<"schema", Null>> >>)

ParamEntries ==
  {PLimit, PPlain, PRefId, PRefMissing, PRefThroughScalar, PRefThroughList, PRefChain,
   PNoName, PNullSchema, Null}

Operation(id, fields) == M(<< <<"operationId", id>> >> \o fields)

Described(text) == << <<"description", S(text)>> >>

WithParams(list) == << <<"parameters", L(list)>> >>

OpGetItems ==
  Operation(Leaf("getItems"), Described(<<"Get all items.">>) \o WithParams(<<PLimit>>))

OpCreateItem == Operation(Leaf("createItem"), Described(<<"Create", NL, QUOTE, "item", QUOTE>>))

OpNoId == M(Described(<<"Missing operationId">>))

\* operations an entry keyed by a method may hold
MethodOps ==
  {OpGetItems, OpCreateItem, OpNoId, Null, Leaf("text"), L(<<PLimit>>),
   Operation(S(<<>>), <<>>),
   Operation(Null, <<>>),
   Operation(Leaf("getItems"), <<>>),
   Operation(Leaf("byRef"), WithParams(<<PRefMissing, PLimit>>)),
   Operation(Leaf("byRef"), WithParams(<<PLimit, PRefThroughScalar>>)),
   Operation(Leaf("nullDescription"), << <<"description", Null>> >>),
   Operation(Leaf("nullParameters"), << <<"parameters", Null>> >>)}

\* the entries of the first path item: every method with a plain operation,
\* get and post with every operation, and keys that are no method
ItemsEntries ==
  {<<m, op>> : m \in Methods, op \in {OpGetItems, OpCreateItem}}
  \cup {<<m, op>> : m \in {"get", "post"}, op \in MethodOps}
  \cup {<<key, op>> : key \in {"GET", "head", "options", "summary"},
                      op \in {OpGetItems, Leaf("text")}}
  \cup {<<"parameters", L(<<PPlain>>)>>, <<"parameters", Null>>}

ItemEntries == {<<"get", OpGetItems>>, <<"get", OpNoId>>, <<"patch", OpCreateItem>>,
                <<"delete", Null>>}

DistinctKeys(es) == \A i, j \in 1..Len(es) : i # j => es[i][1] # es[j][1]

EntryLists(E, n) == {es \in SeqsUpTo(E, n) : DistinctKeys(es)}

Document(paths) ==
  M(<< <<"info", Info>>, <<"servers", Servers>>, <<"paths", M(paths)>>,
       <<"components", Components>> >>)

PathItem(path, es) == IF es = <<>> THEN <<>> ELSE << <<path, M(es)>> >>

\* documents of at most MaxOps entries over two paths
ManyOpDocs ==
  {Document(PathItem("/items", a) \o PathItem("/items/{item_id}", b)) :
     <<a, b>> \in {<<x, y>> \in EntryLists(ItemsEntries, MaxOps) \X EntryLists(ItemEntries, MaxOps) :
                     Len(x) + Len(y) <= MaxOps}}

ParamDoc(list) ==
  Document(<< <<"/items", M(<< <<"get", Operation(Leaf("getItems"), WithParams(list))>> >>)>> >>)

\* documents of one operation with at most MaxParams parameter entries
ManyParamDocs == {ParamDoc(list) : list \in SeqsUpTo(ParamEntries, MaxParams)}

\* documents whose paths, or one path item, is no mapping
OddDocs ==
  {M(<< <<"info", Info>> >>),
   M(<< <<"info", Info>>, <<"paths", Null>> >>),
   Document(<< <<"/items", Null>> >>),
   Document(<< <<"/items", M(<< <<"get", OpGetItems>> >>)>>, <<"/items/{item_id}", Null>> >>)}

\* with documents that point to the component that points to itself
Documents ==
  ManyOpDocs \cup ManyParamDocs \cup OddDocs
    \cup {ParamDoc(<<PRefSelf>>), ParamDoc(<<PLimit, PRefSelf>>),
          ParamDoc(<<PRefSelf, PRefChain>>)}

InitDocument ==
  /\ pc = "loaded"
  /\ doc \in Documents
  /\ result = None
  /\ desc = <<>> /\ once = <<>> /\ twice = <<>> /\ param = None /\ ptype = ""
  /\ ref = <<>> /\ resolved = None
  /\ resources = None /\ NoProject /\ NoLoader

Generated(impl, r) ==
  [k |-> impl, st |-> r.st, at |-> r.at, tools |-> r.tools, warn |-> r.warn]

\* mutant of GenerateToolsModular: spec.pop('paths', {}) for spec.get('paths', {})
GenerateToolsModular_PopsPaths ==
  /\ pc \in {"loaded", "generated"}
  /\ pc' = "generated"
  /\ result' = Generated("modular", generate_tool_definitions(doc, TRUE))
  /\ doc' = M(SelectSeq(doc.v, LAMBDA entry : entry[1] # "paths"))
  /\ UNCHANGED <<desc, once, twice, param, ptype, ref, resolved, resources, projectVars, loaderVars>>

\* generators.generate_tool_definitions(spec), on a document just loaded or
\* on one a builder has been run on before
GenerateToolsModular ==
  /\ pc \in {"loaded", "generated"}
  /\ pc' = "generated"
  /\ result' = Generated("modular", generate_tool_definitions(doc, TRUE))
  /\ UNCHANGED <<doc, desc, once, twice, param, ptype, ref, resolved, resources, projectVars, loaderVars>>

\* generator.generate_tool_definitions(spec), MCPGenerator.generate_tool_definitions()
GenerateToolsInline ==
  /\ pc = "loaded"
  /\ pc' = "generated"
  /\ result' = Generated("inline", generate_tool_definitions(doc, FALSE))
  /\ UNCHANGED <<doc, desc, once, twice, param, ptype, ref, resolved, resources, projectVars, loaderVars>>

\* ------------------------------------------------------------ resource definitions
MaxSchemas == 2

\* d.get(key, default) on a mapping d
Get(d, key, default) == IF HasKey(d, key) THEN Lookup(d, key) ELSE default

\* the keys of the schemas below, in the order yaml.dump sorts them
KeyOrder == <<"id", "name", "properties", "required", "type">>

Rank(key) == CHOOSE i \in 1..Len(KeyOrder) : KeyOrder[i] = key

RECURSIVE SortPairs(_)
\* the pairs of a mapping sorted by key (selection of the least key first)
SortPairs(pairs) ==
  IF pairs = <<>> THEN <<>>
  ELSE LET least == CHOOSE i \in 1..Len(pairs) :
                      \A j \in 1..Len(pairs) : Rank(pairs[i][1]) <= Rank(pairs[j][1])
       IN  <<pairs[least]>>
           \o SortPairs(SubSeq(pairs, 1, least - 1) \o SubSeq(pairs, least + 1, Len(pairs)))

RECURSIVE Dump(_)
\* yaml.dump(schema, default_flow_style=False): block style, the keys of every
\* mapping sorted
Dump(x) ==
  CASE x.k = "map" ->
         LET sorted == SortPairs(x.v)
         IN  M([i \in 1..Len(sorted) |-> <<sorted[i][1], Dump(sorted[i][2])>>])
    [] x.k = "list" -> L([i \in 1..Len(x.v) |-> Dump(x.v[i])])
    [] OTHER -> x

\* a value as an f-string interpolates it, character by character
FormatText(x) == IF IsStr(x) THEN x.v ELSE <<Format(x)>>

NoResources(where) == [st |-> "raise", at |-> where, list |-> <<>>]

\* the API-info resource: Title, Version and Description of info, each with
\* its fallback
InfoResourceOf(info, d) ==
  IF d.st = "raise" THEN NoResources("description")
  ELSE [st |-> "ok", at |-> "",
        list |-> << [uri |-> "api://info", fn |-> "get_api_info", doc |-> "Get API information",
                     body |-> [title |-> FormatText(Get(info, "title", S(<<"API">>))),
                               version |-> FormatText(Get(info, "version", S(<<"1.0.0">>))),
                               description |-> d.text]] >>]

\* generators._generate_api_info_resource sanitizes the description; the
\* resource builders of generator.py and mcp_generator.py interpolate it as given
generate_api_info_resource(spec, modular) ==
  IF ~IsMap(Get(spec, "info", EmptyMap)) THEN NoResources("info")
  ELSE Only({InfoResourceOf(info, d) :
               info \in {Get(spec, "info", EmptyMap)},
               d \in {IF modular
                      THEN sanitize_description(
                             Get(Get(spec, "info", EmptyMap), "description", S(<<"API description">>)))
                      ELSE [st |-> "ok",
                            text |-> FormatText(
                              Get(Get(spec, "info", EmptyMap), "description",
                                  S(<<"API description">>)))]}})

\* the resource of one entry of components.schemas
SchemaResource(schema_name, schema) ==
  [uri |-> "schema://" \o schema_name,
   fn |-> "get_" \o schema_name \o "_schema",
   doc |-> "Get the " \o schema_name \o " schema definition",
   body |-> Dump(schema)]

\* mutant of generate_schema_resources: the entries are taken last first
generate_schema_resources_Reversed(spec) ==
  IF ~IsMap(Get(spec, "components", EmptyMap)) THEN NoResources("components")
  ELSE IF ~IsMap(Get(Get(spec, "components", EmptyMap), "schemas", EmptyMap))
  THEN NoResources("schemas")
  ELSE LET schemas == Get(Get(spec, "components", EmptyMap), "schemas", EmptyMap).v
       IN  [st |-> "ok", at |-> "",
            list |-> [i \in 1..Len(schemas) |->
                        SchemaResource(schemas[Len(schemas) + 1 - i][1],
                                       schemas[Len(schemas) + 1 - i][2])]]

\* generators._generate_schema_resources, and the schema loop of the inlined
\* builders: spec.get('components', {}).get('schemas', {}).items()
generate_schema_resources(spec) ==
  IF ~IsMap(Get(spec, "components", EmptyMap)) THEN NoResources("components")
  ELSE IF ~IsMap(Get(Get(spec, "components", EmptyMap), "schemas", EmptyMap))
  THEN NoResources("schemas")
  ELSE LET schemas == Get(Get(spec, "components", EmptyMap), "schemas", EmptyMap).v
       IN  [st |-> "ok", at |-> "",
            list |-> [i \in 1..Len(schemas) |-> SchemaResource(schemas[i][1], schemas[i][2])]]

ResourcesThen(one, rest) ==
  IF one.st = "raise" THEN one
  ELSE IF rest.st = "raise" THEN rest
  ELSE [st |-> "ok", at |-> "", list |-> one.list \o rest.list]

\* generate_resource_definitions: the API-info resource, then the schema
\* resources (the text returned joins them), or the exception that ends the run
generate_resource_definitions(spec, modular) ==
  Only({ResourcesThen(one, rest) :
          one \in {generate_api_info_resource(spec, modular)},
          rest \in {generate_schema_resources(spec)}})

ItemSchema ==
  M(<< <<"type", Leaf("object")>>,
       <<"properties", M(<< <<"name", M(<< <<"type", Leaf("string")>> >>)>>,
                            <<"id", IntegerSchema>> >>)>> >>)

ErrorSchema == M(<< <<"type", Leaf("object")>>, <<"required", L(<<Leaf("code")>>)>> >>)

SchemaEntries == {<<"Item", ItemSchema>>, <<"Error", ErrorSchema>>, <<"Id", IntegerSchema>>}

\* info objects: title and version given or not, a description that is absent,
\* null, or a short text with line breaks and quotes
InfoObjects ==
  {M(title \o version \o description) :
     title \in {<<>>, << <<"title", Leaf("Test API")>> >>},
     version \in {<<>>, << <<"version", Leaf("2.1")>> >>},
     description \in {<<>>, << <<"description", Null>> >>}
                     \cup {<< <<"description", S(d)>> >> : d \in SeqsUpTo({"a", NL, QUOTE}, 2)}}

ComponentObjects ==
  {M(<< <<"parameters", M(<< <<"Id", IdParam>> >>)>> >>),
   M(<< <<"schemas", Null>> >>)}
  \cup {M(<< <<"schemas", M(es)>> >>) : es \in EntryLists(SchemaEntries, MaxSchemas)}

\* documents with and without info and components
ResourceDocs ==
  {M(info \o components) :
     info \in {<<>>, << <<"info", Null>> >>} \cup {<< <<"info", i>> >> : i \in InfoObjects},
     components \in {<<>>, << <<"components", Null>> >>}
                    \cup {<< <<"components", c>> >> : c \in ComponentObjects}}

InitResources ==
  /\ pc = "parsed"
  /\ doc \in ResourceDocs
  /\ resources = None
  /\ result = None /\ desc = <<>> /\ once = <<>> /\ twice = <<>> /\ param = None
  /\ ptype = "" /\ ref = <<>> /\ resolved = None
  /\ NoProject /\ NoLoader

ResourcesBuilt(impl, r) == [k |-> impl, st |-> r.st, at |-> r.at, list |-> r.list]

\* generators.generate_resource_definitions(spec)
GenerateResourcesModular ==
  /\ pc \in {"parsed", "resources"}
  /\ pc' = "resources"
  /\ resources' = ResourcesBuilt("modular", generate_resource_definitions(doc, TRUE))
  /\ UNCHANGED <<doc, result, desc, once, twice, param, ptype, ref, resolved, projectVars, loaderVars>>

\* generator.generate_resource_definitions(spec),
\* MCPGenerator.generate_resource_definitions()
GenerateResourcesInline ==
  /\ pc \in {"parsed", "resources"}
  /\ pc' = "resources"
  /\ resources' = ResourcesBuilt("inline", generate_resource_definitions(doc, FALSE))
  /\ UNCHANGED <<doc, result, desc, once, twice, param, ptype, ref, resolved, projectVars, loaderVars>>

\* ------------------------------------------------------------ document loader
APOS == "APOS"

\* A file on disk. state: "missing" (no such path), "unreadable" (a directory,
\* no read permission: open raises IOError), "undecodable" (the bytes are not
\* UTF-8: read raises UnicodeDecodeError, a ValueError), or "text". A text file
\* holds YAML (yaml: what yaml.safe_load makes of the text, InvalidYaml when it
\* raises YAMLError) or TypeScript (text: its tokens).
InvalidYaml == [k |-> "invalid", v |-> <<>>]

NoText(state) == [state |-> state, form |-> "any", yaml |-> None, text |-> <<>>]

YamlFile(y) == [state |-> "text", form |-> "yaml", yaml |-> y, text |-> <<>>]

TsFile(text) == [state |-> "text", form |-> "ts", yaml |-> None, text |-> text]

\* What a loader call did: it returned a value, left through SystemExit, or
\* raised; exits are the statuses sys.exit was called with, printed the number
\* of diagnostics printed.
Returned(value, exits) ==
  [st |-> "returned", value |-> value, exits |-> exits, printed |-> Len(exits),
   exc |-> ""]

Exited(exits) ==
  [st |-> "exit", value |-> None, exits |-> exits, printed |-> Len(exits),
   exc |-> "SystemExit"]

Raised(exc, exits) ==
  [st |-> "raised", value |-> None, exits |-> exits, printed |-> Len(exits),
   exc |-> exc]

\* parse_openapi_spec(filepath). patched: sys.exit is replaced by a stub that
\* records the call and returns, so the statements after it run.
parse_openapi_spec(f, patched) ==
  LET first == IF f.state = "missing" THEN <<1>> ELSE <<>>
  IN  IF first # <<>> /\ ~patched THEN Exited(first)
      ELSE CASE f.state \in {"missing", "unreadable"} ->
                  \* open raises an IOError, caught by the outer handler
                  IF patched THEN Returned(Null, Append(first, 1))
                  ELSE Exited(Append(first, 1))
             [] f.state = "undecodable" ->
                  \* neither handler catches a UnicodeDecodeError
                  Raised("UnicodeDecodeError", first)
             [] f.state = "text" /\ f.yaml = InvalidYaml ->
                  IF patched THEN Returned(Null, <<1>>) ELSE Exited(<<1>>)
             [] f.state = "text" /\ f.yaml # InvalidYaml /\ ~IsMap(f.yaml) ->
                  \* SystemExit is no YAMLError; after a stub, `return spec`
                  IF patched THEN Returned(f.yaml, <<1>>) ELSE Exited(<<1>>)
             [] OTHER -> Returned(f.yaml, <<>>)

\* OpenAPISpecParser.parse: the statements of parse_openapi_spec, with other
\* messages
OpenAPISpecParser_parse(f, patched) == parse_openapi_spec(f, patched)

Keywords == <<"openapi:", "info:", "title:">>

SampleTitle == <<"Sample TS API">>

RECURSIVE SkipSpace(_, _)
\* \s* from position i on: the position of the first token that is no space
SkipSpace(s, i) == IF i <= Len(s) /\ s[i] \in {SP, NL} THEN SkipSpace(s, i + 1) ELSE i

RECURSIVE ClosingQuote(_, _)
\* (.*?)['\"] from position i on: the position of the nearest quote character
\* with no newline before it, 0 when there is none
ClosingQuote(s, i) ==
  IF i > Len(s) \/ s[i] = NL THEN 0
  ELSE IF s[i] \in {APOS, QUOTE} THEN i
  ELSE ClosingQuote(s, i + 1)

\* the match of title:\s*['\"](.*?)['\"] that starts at position i
MatchAt(s, i) ==
  LET j == SkipSpace(s, i + 1)
      k == IF j <= Len(s) /\ s[j] \in {APOS, QUOTE} THEN ClosingQuote(s, j + 1) ELSE 0
  IN  IF s[i] = "title:" /\ k # 0
      THEN [found |-> TRUE, group |-> SubSeq(s, j + 1, k - 1)]
      ELSE [found |-> FALSE, group |-> <<>>]

RECURSIVE Search(_, _)
\* re.search: the leftmost match
Search(s, i) ==
  IF i > Len(s) THEN [found |-> FALSE, group |-> <<>>]
  ELSE IF MatchAt(s, i).found THEN MatchAt(s, i)
  ELSE Search(s, i + 1)

\* mutant of ExtractTitle: an empty match replaces the default title
ExtractTitle_KeepsEmpty(content) ==
  LET match == Search(content, 1)
  IN  IF match.found THEN match.group ELSE SampleTitle

\* title = "Sample TS API"; if match and match.group(1): title = match.group(1)
ExtractTitle(content) ==
  LET match == Search(content, 1)
  IN  IF match.found /\ match.group # <<>> THEN match.group ELSE SampleTitle

\* the stubbed OpenAPI-like dictionary
TsStub(title) ==
  M(<< <<"openapi", S(<<"3.0.0">>)>>,
       <<"info", M(<< <<"title", S(title)>>, <<"version", S(<<"1.0.0-ts-stub">>)>> >>)>>,
       <<"paths", EmptyMap>> >>)

\* TypeScriptOpenAPIParser.parse
TypeScriptOpenAPIParser_parse(f, patched) ==
  LET first == IF f.state = "missing" THEN <<1>> ELSE <<>>
      keywords == \A n \in 1..Len(Keywords) : In(Keywords[n], S(f.text)) = "yes"
  IN  IF first # <<>> /\ ~patched THEN Exited(first)
      ELSE CASE f.state \in {"missing", "unreadable"} ->
                  \* after the stub returns, `content` is not bound
                  IF patched THEN Raised("NameError", Append(first, 1))
                  ELSE Exited(Append(first, 1))
             [] f.state = "undecodable" -> Raised("UnicodeDecodeError", first)
             [] f.state = "text" /\ ~keywords ->
                  IF patched THEN Returned(TsStub(ExtractTitle(f.text)), <<1>>)
                  ELSE Exited(<<1>>)
             [] OTHER -> Returned(TsStub(ExtractTitle(f.text)), <<>>)

\* what safe_load makes of the YAML files: an error, an empty document, a
\* scalar, lists, mappings
YamlValues ==
  {InvalidYaml, Null, S(<<"hello">>), L(<<>>), L(<<S(<<"x">>)>>), EmptyMap,
   Document(PathItem("/items", << <<"get", OpGetItems>> >>))}

TsAlphabet == {"title:", APOS, "x"}

MaxTsLen == 7

\* TypeScript texts: the first two keywords and any tokens after them, the
\* text of the test without keywords, texts with spaces, newlines and both
\* quote characters
TsTexts ==
  {<<"openapi:", "info:">> \o body : body \in SeqsUpTo(TsAlphabet, MaxTsLen)}
    \cup {<<"const", SP, "variable", SP, "=", SP, APOS, "some", SP, "value", APOS, ";">>,
          <<"openapi:", SP, "info:", SP, "title:", SP, "Foo", NL, "title:", NL, SP,
            APOS, "A", QUOTE, "b", APOS>>,
          <<"openapi:", "info:", "title:", SP, APOS, "a", NL, "b", APOS, SP, "title:",
            SP, QUOTE, "c", QUOTE>>,
          <<"info:", "title:", APOS, "x", APOS>>}

LoaderFiles ==
  {NoText(state) : state \in {"missing", "unreadable", "undecodable"}}
    \cup {YamlFile(y) : y \in YamlValues}
    \cup {TsFile(t) : t \in TsTexts}

\* one loader call: which parser, whether sys.exit was patched, what happened
Loaded(parser, patched, outcome) ==
  [parser |-> parser, patched |-> patched, st |-> outcome.st, value |-> outcome.value,
   exits |-> outcome.exits, printed |-> outcome.printed, exc |-> outcome.exc]

InitLoader ==
  /\ pc = "file"
  /\ openapi_file \in LoaderFiles /\ load = None
  /\ doc = None /\ result = None /\ resources = None /\ desc = <<>> /\ once = <<>>
  /\ twice = <<>> /\ param = None /\ ptype = "" /\ ref = <<>> /\ resolved = None
  /\ NoProject

ParseOpenAPISpec ==
  /\ pc = "file" /\ openapi_file.form \in {"any", "yaml"}
  /\ load' = Loaded("parse_openapi_spec", FALSE, parse_openapi_spec(openapi_file, FALSE))
  /\ pc' = "parsed_file"
  /\ UNCHANGED <<openapi_file, toolVars, projectVars>>

OpenAPISpecParserParse ==
  /\ pc = "file" /\ openapi_file.form \in {"any", "yaml"}
  /\ \E patched \in BOOLEAN :
       load' = Loaded("OpenAPISpecParser", patched, OpenAPISpecParser_parse(openapi_file, patched))
  /\ pc' = "parsed_file"
  /\ UNCHANGED <<openapi_file, toolVars, projectVars>>

TypeScriptParse ==
  /\ pc = "file" /\ openapi_file.form \in {"any", "ts"}
  /\ \E patched \in BOOLEAN :
       load' = Loaded("TypeScriptOpenAPIParser", patched,
                      TypeScriptOpenAPIParser_parse(openapi_file, patched))
  /\ pc' = "parsed_file"
  /\ UNCHANGED <<openapi_file, toolVars, projectVars>>

\* ------------------------------------------------------------ project generation
MaxNameLen == 2

MaxRuns == 2

\* U+0130, the capital I with a dot: str.lower() gives "i" followed by the
\* combining dot U+0307, which is not alphanumeric
I_DOT == "I_DOT"

COMBINING_DOT == "COMBINING_DOT"

\* the characters of an API title: a capital, a space, a hyphen and U+0130
NameAlphabet == {"A", SP, "-", I_DOT}

\* c.lower() for one character
LowerChar(c) ==
  CASE c = "A" -> <<"a">>
    [] c = I_DOT -> <<"i", COMBINING_DOT>>
    [] OTHER -> <<c>>

RECURSIVE Lower(_)
\* str.lower()
Lower(s) == IF s = <<>> THEN <<>> ELSE LowerChar(Head(s)) \o Lower(Tail(s))

\* c.isalnum() for one character
IsAlnum(c) == c \notin {SP, "-", "_", "/", ".", COMBINING_DOT}

\* mutant of SanitizedName: runs of other characters become one hyphen
SanitizedName_MergedRuns(api_name) ==
  LET lowered == Lower(api_name)
      kept == {i \in 1..Len(lowered) : IsAlnum(lowered[i]) \/ i = 1 \/ IsAlnum(lowered[i - 1])}
      RECURSIVE Pick(_)
      Pick(i) == IF i > Len(lowered) THEN <<>>
                 ELSE (IF i \in kept
                       THEN <<IF IsAlnum(lowered[i]) THEN lowered[i] ELSE "-">>
                       ELSE <<>>) \o Pick(i + 1)
  IN  Pick(1)

\* ''.join(c if c.isalnum() else '-' for c in api_name.lower())
SanitizedName(api_name) ==
  LET lowered == Lower(api_name)
  IN  [i \in 1..Len(lowered) |-> IF IsAlnum(lowered[i]) THEN lowered[i] ELSE "-"]

\* the values uuid.uuid4() may return, as the first eight characters of their
\* text and the rest: two of them begin alike
UUIDs ==
  {[head |-> "1b9d6bcd", rest |-> "-bbfd-4b2d-9b5d-ab8dfbbd4bed"],
   [head |-> "1b9d6bcd", rest |-> "-0c22-4e6f-8a51-3f0e7d1c9a44"],
   [head |-> "518d0db5", rest |-> "-7a3e-4c11-b2f0-6d9e8c5a1b27"]}

\* str(uuid.uuid4())[:8]
UniqueId(u) == u.head

\* f"openapi-mcp-{sanitized_name}-{unique_id}"
DirName(api_name, u) == <<"openapi-mcp-">> \o SanitizedName(api_name) \o <<"-", UniqueId(u)>>

\* os.path.join(a, b) for a relative b
PathJoin(a, b) ==
  IF a = <<>> THEN b
  ELSE IF a[Len(a)] = "/" THEN a \o b
  ELSE a \o <<"/">> \o b

\* os.path.basename(path): what follows the last separator
Basename(path) ==
  LET seps == {i \in 1..Len(path) : path[i] = "/"}
      last == IF seps = {} THEN 0 ELSE CHOOSE i \in seps : \A j \in seps : j <= i
  IN  SubSeq(path, last + 1, Len(path))

\* create_project_directory(output_dir, api_name), for the value u of uuid4()
create_project_directory(output_dir, api_name, u) == PathJoin(output_dir, DirName(api_name, u))

\* mutant of EffectiveUrl: the last declared server is taken
EffectiveUrl_LastServer(spec, api_url) ==
  IF api_url # <<>> \/ ~HasKey(spec, "servers") \/ ~Truthy(Lookup(spec, "servers"))
  THEN [st |-> "ok", url |-> api_url]
  ELSE IF Lookup(spec, "servers").k # "list" \/ ~IsMap(Lookup(spec, "servers").v[1])
  THEN [st |-> "raise", url |-> <<>>]
  ELSE [st |-> "ok",
        url |-> FormatText(Get(Lookup(spec, "servers").v[Len(Lookup(spec, "servers").v)],
                               "url", S(<<>>)))]

\* if not api_url and 'servers' in spec and spec['servers']:
\*     api_url = spec['servers'][0].get('url', '')
EffectiveUrl(spec, api_url) ==
  IF api_url # <<>> \/ ~HasKey(spec, "servers") \/ ~Truthy(Lookup(spec, "servers"))
  THEN [st |-> "ok", url |-> api_url]
  ELSE IF Lookup(spec, "servers").k # "list" \/ ~IsMap(Lookup(spec, "servers").v[1])
  THEN [st |-> "raise", url |-> <<>>]
  ELSE [st |-> "ok", url |-> FormatText(Get(Lookup(spec, "servers").v[1], "url", S(<<>>)))]

\* mutant of ProjectName: the case of the identifier is kept
ProjectName_KeepCase(container_name) == Replace(container_name, "-", <<"_">>)

\* container_name.lower().replace('-', '_')
ProjectName(container_name) == Replace(Lower(container_name), "-", <<"_">>)

\* mutant of TemplateContext: the two definition texts change places
TemplateContext_Swapped(a, dir, url, b) ==
  [api_name |-> a.api_name,
   api_url |-> url,
   auth_type |-> IF a.impl = "legacy" THEN "bearer" ELSE a.auth_type,
   api_token |-> a.api_token,
   api_username |-> IF a.impl = "legacy" THEN "" ELSE a.api_username,
   api_password |-> IF a.impl = "legacy" THEN "" ELSE a.api_password,
   container_name |-> Basename(dir),
   image_name |-> Lower(Basename(dir)),
   project_name |-> ProjectName(Basename(dir)),
   mcp_server_name |-> a.api_name \o <<SP, "MCP", SP, "Server">>,
   tool_definitions |-> b.resources,
   resource_definitions |-> b.tools]

\* mutant of TemplateContext: generate_mcp_server passes the credentials on
TemplateContext_PassesCredentials(a, dir, url, b) ==
  [api_name |-> a.api_name,
   api_url |-> url,
   auth_type |-> a.auth_type,
   api_token |-> a.api_token,
   api_username |-> a.api_username,
   api_password |-> a.api_password,
   container_name |-> Basename(dir),
   image_name |-> Lower(Basename(dir)),
   project_name |-> ProjectName(Basename(dir)),
   mcp_server_name |-> a.api_name \o <<SP, "MCP", SP, "Server">>,
   tool_definitions |-> b.tools,
   resource_definitions |-> b.resources]

\* the template_context dictionary; generator.generate_mcp_server always
\* gives bearer and empty credentials
TemplateContext(a, dir, url, b) ==
  [api_name |-> a.api_name,
   api_url |-> url,
   auth_type |-> IF a.impl = "legacy" THEN "bearer" ELSE a.auth_type,
   api_token |-> a.api_token,
   api_username |-> IF a.impl = "legacy" THEN "" ELSE a.api_username,
   api_password |-> IF a.impl = "legacy" THEN "" ELSE a.api_password,
   container_name |-> Basename(dir),
   image_name |-> Lower(Basename(dir)),
   project_name |-> ProjectName(Basename(dir)),
   mcp_server_name |-> a.api_name \o <<SP, "MCP", SP, "Server">>,
   tool_definitions |-> b.tools,
   resource_definitions |-> b.resources]

\* mutant of Templates: the server file is rendered last
Templates_ServerLast ==
  << <<"docker/Dockerfile", "Dockerfile">>,
     <<"docker/docker.sh", "docker.sh">>,
     <<"config/.env.sh", ".env.sh">>,
     <<"requirements.txt", "requirements.txt">>,
     <<"pyproject.toml", "pyproject.toml">>,
     <<"server/mcp_server.py", "mcp_server.py">> >>

\* the render_template calls of one run: template and file, in program order
Templates ==
  << <<"docker/Dockerfile", "Dockerfile">>,
     <<"docker/docker.sh", "docker.sh">>,
     <<"config/.env.sh", ".env.sh">>,
     <<"server/mcp_server.py", "mcp_server.py">>,
     <<"requirements.txt", "requirements.txt">>,
     <<"pyproject.toml", "pyproject.toml">> >>

\* the os.chmod calls of one run, in program order
Executables == <<"docker.sh", ".env.sh", "mcp_server.py">>

Called(op) == SelectSeq(calls, LAMBDA c : c.op = op)

\* servers sections: absent, null, empty, one or two servers, a first server
\* without url, and lists whose first entry is no mapping
ServerSections ==
  {<<>>,
   << <<"servers", Null>> >>,
   << <<"servers", L(<<>>)>> >>,
   << <<"servers", Servers>> >>,
   << <<"servers", L(<< M(<< <<"url", Leaf("http://first")>> >>),
                        M(<< <<"url", Leaf("http://second")>> >>) >>)>> >>,
   << <<"servers", L(<< M(<< <<"description", Leaf("staging")>> >>),
                        M(<< <<"url", Leaf("http://second")>> >>) >>)>> >>,
   << <<"servers", L(<<Null>>)>> >>,
   << <<"servers", M(<< <<"url", Leaf("http://mapping")>> >>)>> >>}

\* a document titled title, with one operation and one schema
ProjectDoc(title, servers, operation) ==
  M(<< <<"info", M(<< <<"title", S(title)>>, <<"description", S(<<"An", NL, "API">>)>> >>)>> >>
    \o servers
    \o << <<"paths", M(<< <<"/items", M(<< <<"get", operation>> >>)>> >>)>>,
          <<"components", M(<< <<"schemas", M(<< <<"Item", ItemSchema>> >>)>> >>)>> >>)

\* the arguments of one run; generator.generate_mcp_server takes the API name
\* from info.title
Arguments(impl, output_dir, api_name, api_url) ==
  [impl |-> impl, output_dir |-> output_dir, api_name |-> api_name, api_url |-> api_url,
   auth_type |-> "basic", api_token |-> "test_token", api_username |-> "user",
   api_password |-> "secret"]

FakeApi == <<"A", "b", SP, "A">>

\* directories a caller hands to generate_project_files itself
GivenDirs == {<<"fake_project_dir">>, <<"out", "/", "A", "-", "b">>}

\* credentials a caller may pass besides those of the tests
Credentials ==
  {[auth_type |-> "basic", api_username |-> "user", api_password |-> "secret"],
   [auth_type |-> "api_key", api_username |-> "", api_password |-> ""],
   [auth_type |-> "bearer", api_username |-> "admin", api_password |-> ""]}

WithCredentials(a, c) ==
  [a EXCEPT !.auth_type = c.auth_type, !.api_username = c.api_username,
            !.api_password = c.api_password]

\* MCPGenerator is constructed with the parsed document; generate_mcp_server
\* is given the file that holds it
Given(impl, d) ==
  IF impl = "legacy" THEN doc = None /\ openapi_file = YamlFile(d) ELSE doc = d /\ openapi_file = None

InitProject ==
  /\ \E impl \in {"class", "legacy"} :
       \/ \E api_name \in SeqsUpTo(NameAlphabet, MaxNameLen) :
            /\ Given(impl, ProjectDoc(api_name, << <<"servers", Servers>> >>, OpGetItems))
            /\ args = Arguments(impl, <<"out">>, api_name, <<>>)
       \/ \E output_dir \in {<<"out", "/">>, <<>>} :
            /\ Given(impl, ProjectDoc(FakeApi, << <<"servers", Servers>> >>, OpGetItems))
            /\ args = Arguments(impl, output_dir, FakeApi, <<>>)
       \/ \E servers \in ServerSections, api_url \in {<<>>, <<"http://fakeapi.com">>},
             operation \in {OpGetItems, Null} :
            /\ Given(impl, ProjectDoc(FakeApi, servers, operation))
            /\ args = Arguments(impl, <<"out">>, FakeApi, api_url)
       \/ \E c \in Credentials :
            /\ Given(impl, ProjectDoc(FakeApi, << <<"servers", Servers>> >>, OpGetItems))
            /\ args = WithCredentials(Arguments(impl, <<"out">>, FakeApi, <<>>), c)
       \/ /\ impl = "legacy"
          \* files generate_mcp_server cannot load
          /\ doc = None
          /\ openapi_file \in {NoText("missing"), NoText("undecodable"),
                                YamlFile(InvalidYaml), YamlFile(L(<<>>))}
          /\ args = Arguments(impl, <<"out">>, FakeApi, <<>>)
  /\ pc = IF args.impl = "legacy" THEN "launch" ELSE "start"
  /\ load = None
  /\ project_dir = <<>> /\ built = None /\ context = None /\ calls = <<>> /\ dirs = <<>>
  /\ files = {}
  /\ result = None /\ resources = None /\ desc = <<>> /\ once = <<>> /\ twice = <<>>
  /\ param = None /\ ptype = "" /\ ref = <<>> /\ resolved = None

\* generate_mcp_server: spec = parse_openapi_spec(openapi_file). SystemExit
\* ends the run, and so does an exception of the loader.
ParseSpec ==
  /\ pc = "launch"
  /\ LET o == parse_openapi_spec(openapi_file, FALSE)
     IN  /\ load' = Loaded("parse_openapi_spec", FALSE, o)
         /\ doc' = IF o.st = "returned" THEN o.value ELSE doc
         /\ pc' = CASE o.st = "returned" -> "start"
                    [] o.st = "exit" -> "exited"
                    [] OTHER -> "failed"
  /\ UNCHANGED <<openapi_file, result, desc, once, twice, param, ptype, ref, resolved, resources,
                 projectVars>>

\* mutant of CreateProjectDirectory: os.makedirs without exist_ok raises
\* FileExistsError for a directory an earlier run made
CreateProjectDirectory_FailsOnExisting ==
  /\ pc = "start"
  /\ \E u \in UUIDs :
       LET path == create_project_directory(args.output_dir, args.api_name, u)
           exists == \E i \in 1..Len(dirs) :
                       PathJoin(dirs[i].output_dir, dirs[i].dir_name) = path
       IN  /\ project_dir' = IF exists THEN project_dir ELSE path
           /\ calls' = Append(calls, [op |-> "makedirs", exist_ok |-> FALSE, path |-> path])
           /\ dirs' = Append(dirs, [output_dir |-> args.output_dir,
                                    api_name |-> args.api_name,
                                    dir_name |-> DirName(args.api_name, u)])
           /\ pc' = IF exists THEN "failed" ELSE "created"
  /\ UNCHANGED <<args, built, context, toolVars, files, loaderVars>>

\* create_project_directory: the directory is named after the API and the
\* first eight characters of a fresh UUID, and requested with exist_ok=True
CreateProjectDirectory ==
  /\ pc = "start"
  /\ \E u \in UUIDs :
       /\ project_dir' = create_project_directory(args.output_dir, args.api_name, u)
       /\ calls' = Append(calls, [op |-> "makedirs", exist_ok |-> TRUE,
                                  path |-> create_project_directory(args.output_dir, args.api_name, u)])
       /\ dirs' = Append(dirs, [output_dir |-> args.output_dir, api_name |-> args.api_name,
                                dir_name |-> DirName(args.api_name, u)])
  /\ pc' = "created"
  /\ UNCHANGED <<args, built, context, toolVars, files, loaderVars>>

\* MCPGenerator.generate_project_files called with a directory of the caller's
UseProjectDirectory ==
  /\ pc = "start" /\ args.impl = "class"
  /\ project_dir' \in GivenDirs
  /\ pc' = "created"
  /\ UNCHANGED <<args, built, context, calls, dirs, toolVars, files, loaderVars>>

\* tool_defs = generate_tool_definitions()
BuildTools ==
  /\ pc = "created"
  /\ LET r == generate_tool_definitions(doc, FALSE)
     IN  /\ built' = [tool_st |-> r.st, tools |-> r.tools, resources |-> <<>>]
         /\ pc' = IF r.st = "ok" THEN "tools_built" ELSE "failed"
  /\ calls' = Append(calls, [op |-> "generate_tool_definitions"])
  /\ UNCHANGED <<args, project_dir, context, dirs, toolVars, files, loaderVars>>

\* resource_defs = generate_resource_definitions()
BuildResources ==
  /\ pc = "tools_built"
  /\ LET r == generate_resource_definitions(doc, FALSE)
     IN  /\ built' = [built EXCEPT !.resources = r.list]
         /\ pc' = IF r.st = "ok" THEN "resources_built" ELSE "failed"
  /\ calls' = Append(calls, [op |-> "generate_resource_definitions"])
  /\ UNCHANGED <<args, project_dir, context, dirs, toolVars, files, loaderVars>>

\* the server URL, the three names and the template context
BuildContext ==
  /\ pc = "resources_built"
  /\ LET url == EffectiveUrl(doc, args.api_url)
     IN  IF url.st = "raise"
         THEN pc' = "failed" /\ UNCHANGED context
         ELSE /\ pc' = "render"
              /\ context' = TemplateContext(args, project_dir, url.url, built)
  /\ UNCHANGED <<args, project_dir, built, calls, dirs, toolVars, files, loaderVars>>

\* the next render_template call
Render ==
  /\ pc = "render"
  /\ LET i == Len(Called("render")) + 1
     IN  /\ calls' = Append(calls, [op |-> "render", template |-> Templates[i][1],
                                    path |-> PathJoin(project_dir, <<Templates[i][2]>>),
                                    context |-> context])
         /\ files' = files \cup {PathJoin(project_dir, <<Templates[i][2]>>)}
         /\ pc' = IF i = Len(Templates) THEN "chmod" ELSE "render"
  /\ UNCHANGED <<args, project_dir, built, context, dirs, toolVars, loaderVars>>

\* render_template raises (a template is missing, a file cannot be written):
\* nothing catches it
RenderFails ==
  /\ pc = "render"
  /\ pc' = "failed"
  /\ UNCHANGED <<args, project_dir, built, context, calls, dirs, toolVars, files, loaderVars>>

\* the next os.chmod call
Chmod ==
  /\ pc = "chmod"
  /\ LET i == Len(Called("chmod")) + 1
     IN  /\ calls' = Append(calls, [op |-> "chmod", mode |-> "0o755",
                                    path |-> PathJoin(project_dir, <<Executables[i]>>)])
         /\ pc' = IF i = Len(Executables) THEN "done" ELSE "chmod"
  /\ UNCHANGED <<args, project_dir, built, context, dirs, toolVars, files, loaderVars>>

\* another run with the same arguments; runs are repeated for the API of the
\* tests
NextRun ==
  /\ pc = "done" /\ Len(dirs) < MaxRuns /\ args.api_name = FakeApi
  /\ pc' = IF args.impl = "legacy" THEN "launch" ELSE "start"
  /\ project_dir' = <<>> /\ built' = None /\ context' = None /\ calls' = <<>>
  /\ UNCHANGED <<args, dirs, toolVars, files, loaderVars>>

\* ------------------------------------------------------------ claims C1-C3, C8, C9
ClaimedMethods == {"get", "post", "put", "delete", "patch"}

HasOperationId(op) == IsMap(op) /\ HasKey(op, "operationId")

WellFormedPaths(d) ==
  HasKey(d, "paths") /\ IsMap(Lookup(d, "paths"))
  /\ \A i \in 1..Len(Lookup(d, "paths").v) : IsMap(Lookup(d, "paths").v[i][2])

\* the (path, method, operation) entries of a document, in document order
Entries(d) ==
  IF WellFormedPaths(d) THEN EntriesOf(Lookup(d, "paths").v, 1) ELSE <<>>

Eligible(e) == e.method \in ClaimedMethods /\ HasOperationId(e.op)

Signature(e) ==
  [id |-> Format(Lookup(e.op, "operationId")), path |-> e.path, method |-> e.method]

ToolSignatures(tools) ==
  [i \in 1..Len(tools) |->
     [id |-> tools[i].id, path |-> tools[i].path, method |-> tools[i].method]]

EligibleSignatures(d) ==
  LET es == SelectSeq(Entries(d), Eligible)
  IN  [i \in 1..Len(es) |-> Signature(es[i])]

\* C1: the tool definitions a run returns are, in document order, exactly one
\* per entry keyed by get, post, put, delete or patch whose operation has an
\* operationId, each with that id, path and method; nothing is deduplicated.
\* (A run that an exception ends returns nothing: C9 and C11 are about those.)
C1_OneToolPerEligibleOperation ==
  pc = "generated" /\ result.st = "ok" =>
    ToolSignatures(result.tools) = EligibleSignatures(doc)

C1_Witness ==
  /\ pc = "generated" /\ result.st = "ok"
  /\ Len(result.tools) = 2
  /\ result.tools[1].id = result.tools[2].id
  /\ result.tools[1].method = "patch"
  /\ result.tools[2].path = "/items/{item_id}"

\* C2: an entry whose key is none of the five methods, or whose operation has
\* no operationId, gives no tool definition, no warning and no failure,
\* whatever its value; with no eligible entry the tool text is empty.
C2_IneligibleEntriesAreSilent ==
  pc = "generated" /\ WellFormedPaths(doc)
  /\ (\A i \in 1..Len(Entries(doc)) : ~Eligible(Entries(doc)[i])) =>
    result.st = "ok" /\ result.tools = <<>> /\ result.warn = 0

\* C3: every emitted tool definition has a non-empty id; an operation whose
\* operationId is present but empty or null produces no tool definition.
C3_NonEmptyId ==
  pc = "generated" /\ result.st = "ok" =>
    /\ \A i \in 1..Len(result.tools) : result.tools[i].id # ""
    /\ Len(result.tools) =
         Cardinality({i \in 1..Len(Entries(doc)) :
                        /\ Eligible(Entries(doc)[i])
                        /\ Truthy(Lookup(Entries(doc)[i].op, "operationId"))})

SetKey(m, key, val) ==
  M([j \in 1..Len(m.v) |-> IF m.v[j][1] = key THEN <<key, val>> ELSE m.v[j]])

SetIdx(m, j, val) == M([m.v EXCEPT ![j] = <<m.v[j][1], val>>])

HasParamList(op) ==
  IsMap(op) /\ HasKey(op, "parameters") /\ Lookup(op, "parameters").k = "list"

\* the positions <<path item, entry, parameter>> of the parameter entries
ParamPositions(d) ==
  IF ~WellFormedPaths(d) THEN {}
  ELSE LET paths == Lookup(d, "paths").v
       IN  {<<pi, ei, i>> \in (1..Len(paths)) \X (1..MaxOps + 1) \X (1..MaxParams + 1) :
              /\ ei <= Len(paths[pi][2].v)
              /\ HasParamList(paths[pi][2].v[ei][2])
              /\ i <= Len(Lookup(paths[pi][2].v[ei][2], "parameters").v)}

ParamAt(d, pos) ==
  Lookup(Lookup(d, "paths").v[pos[1]][2].v[pos[2]][2], "parameters").v[pos[3]]

ReplaceParam(d, pos, o) ==
  LET paths == Lookup(d, "paths")
      item == paths.v[pos[1]][2]
      op == item.v[pos[2]][2]
      list == Lookup(op, "parameters").v
  IN  SetKey(d, "paths",
        SetIdx(paths, pos[1],
          SetIdx(item, pos[2], SetKey(op, "parameters", L([list EXCEPT ![pos[3]] = o])))))

\* {$ref: "#/components/parameters/<name>"} with <name> a declared component
PointsToComponent(d, e) ==
  /\ IsMap(e) /\ Len(e.v) = 1 /\ HasKey(e, "$ref") /\ IsStr(Lookup(e, "$ref"))
  /\ Len(Lookup(e, "$ref").v) = 7
  /\ SubSeq(Lookup(e, "$ref").v, 1, 6) = <<"#", "/", "components", "/", "parameters", "/">>
  /\ HasKey(Lookup(Lookup(d, "components"), "parameters"), Lookup(e, "$ref").v[7])

Component(d, e) ==
  Lookup(Lookup(Lookup(d, "components"), "parameters"), Lookup(e, "$ref").v[7])

Modular == result.k = "modular"

SameOutput(a, b) == a.st = b.st /\ a.tools = b.tools

\* C8 (as claimed): a parameter entry {$ref: p} whose pointer resolves to an
\* object o gives the tool text that o declared inline at the same position gives.
C8_PointerEqualsInline ==
  pc = "generated" =>
    \A pos \in ParamPositions(doc) :
      PointsToComponent(doc, ParamAt(doc, pos)) /\ IsMap(Component(doc, ParamAt(doc, pos))) =>
        SameOutput(result,
          generate_tool_definitions(
            ReplaceParam(doc, pos, Component(doc, ParamAt(doc, pos))), Modular))

\* C8 (amended): the same, for a pointed-to object o that has no $ref key of
\* its own (a component that is itself a pointer is not followed when reached
\* through a pointer, but is resolved when written inline).
C8_PointerEqualsInlineUnchained ==
  pc = "generated" =>
    \A pos \in ParamPositions(doc) :
      (/\ PointsToComponent(doc, ParamAt(doc, pos))
       /\ IsMap(Component(doc, ParamAt(doc, pos)))
       /\ ~HasKey(Component(doc, ParamAt(doc, pos)), "$ref")) =>
        SameOutput(result,
          generate_tool_definitions(
            ReplaceParam(doc, pos, Component(doc, ParamAt(doc, pos))), Modular))

C8_Witness ==
  /\ pc = "generated" /\ result.st = "ok"
  /\ doc = ParamDoc(<<PPlain, PRefId>>)
  /\ result.tools[1].params = << <<"q", "str">>, <<"id", "int">>, CtxParam >>
  /\ generate_tool_definitions(ParamDoc(<<PPlain, IdParam>>), Modular).tools = result.tools

\* a parameter entry whose pointer cannot be walked: a key is absent, or a
\* value on the way is no mapping
Unresolvable(d, e) ==
  /\ IsMap(e) /\ HasKey(e, "$ref") /\ IsStr(Lookup(e, "$ref"))
  /\ ResolveWalk(d, Lookup(e, "$ref")).st \in {"KeyError", "TypeError"}

Resolvable(d, e) == ~Unresolvable(d, e)

WithoutUnresolvable(d) ==
  IF ~WellFormedPaths(d) THEN d
  ELSE LET paths == Lookup(d, "paths").v
           Kept(op) ==
             IF HasParamList(op)
             THEN SetKey(op, "parameters",
                    L(SelectSeq(Lookup(op, "parameters").v, LAMBDA e : Resolvable(d, e))))
             ELSE op
           Item(item) == M([j \in 1..Len(item.v) |-> <<item.v[j][1], Kept(item.v[j][2])>>])
       IN  SetKey(d, "paths", M([i \in 1..Len(paths) |-> <<paths[i][1], Item(paths[i][2])>>]))

\* C9: a pointer with a segment that cannot be found (an absent key, or a
\* list, scalar or null on the way) never ends the run: a warning is printed,
\* that one parameter is left out, and the output is otherwise what the
\* document without that parameter entry gives.
C9_UnresolvablePointerIsLocal ==
  pc = "generated" =>
    /\ ~(result.st = "raise" /\ result.at = "resolve_reference")
    /\ SameOutput(result, generate_tool_definitions(WithoutUnresolvable(doc), Modular))
    /\ result.st = "ok" /\ doc # WithoutUnresolvable(doc) => result.warn >= 1

\* ------------------------------------------------------------ claims C4-C6
Count(s, t) == Cardinality({i \in 1..Len(s) : s[i] = t})

Occurs(s, t) == \E i \in 1..Len(s) : s[i] = t

RECURSIVE CharwiseImage(_)
\* every newline becomes one space, every double quote backslash + double quote
CharwiseImage(s) ==
  IF s = <<>> THEN <<>>
  ELSE (CASE Head(s) = NL -> <<SP>>
          [] Head(s) = QUOTE -> <<BSLASH, QUOTE>>
          [] OTHER -> <<Head(s)>>) \o CharwiseImage(Tail(s))

RECURSIVE FirstUnescapedQuote(_, _)
\* index of the first double quote at or after i that no backslash escapes; 0 if none
FirstUnescapedQuote(s, i) ==
  IF i > Len(s) THEN 0
  ELSE IF s[i] = BSLASH THEN FirstUnescapedQuote(s, i + 2)
  ELSE IF s[i] = QUOTE THEN i
  ELSE FirstUnescapedQuote(s, i + 1)

TerminatedLiteral(lit) ==
  /\ FirstUnescapedQuote(lit, 2) = Len(lit)
  /\ ~Occurs(lit, NL)
  /\ ~Occurs(lit, CR)

\* C4 (as claimed): sanitize_description(sanitize_description(d)) =
\* sanitize_description(d) for every description d.
C4_Idempotent == pc = "sanitized" => twice = once

\* C4 (amended): for every description d without a double quote (backslashes
\* and newlines included) the second application changes nothing; for a d with
\* n > 0 double quotes it inserts n further backslashes, so the results differ.
C4_IdempotentWithoutQuotes ==
  pc = "sanitized" =>
    /\ ~Occurs(desc, QUOTE) => twice = once
    /\ Occurs(desc, QUOTE) =>
         /\ twice # once
         /\ Len(twice) = Len(once) + Count(desc, QUOTE)

C4_Witness ==
  /\ pc = "sanitized"
  /\ Occurs(desc, BSLASH) /\ Occurs(desc, NL) /\ ~Occurs(desc, QUOTE)
  /\ twice = once

\* C5: for every description d the text "<sanitize_description(d)>" of the
\* generated @mcp.tool(description="...") line is a terminated single-line
\* literal: its first unescaped double quote after the opening one is its last
\* character, and it holds no line break.
C5_EmbeddedLiteralTerminated == pc = "sanitized" => TerminatedLiteral(Embed(once))

\* C6: sanitize_description returns its input with every newline replaced by
\* exactly one space and every double quote by backslash + double quote, all
\* other characters unchanged and in order; the empty string maps to itself.
C6_SanitizeCharwise ==
  pc = "sanitized" =>
    /\ once = CharwiseImage(desc)
    /\ desc = <<>> => once = <<>>

C6_Witness ==
  /\ pc = "sanitized"
  /\ desc = <<"a", NL, QUOTE>>
  /\ once = <<"a", SP, BSLASH, QUOTE>>

\* ------------------------------------------------------------ claims C7, C10
\* the type the table gives for a declared schema type
TypeTable(t) ==
  CASE t = "integer" -> "int"
    [] t = "number" -> "float"
    [] t = "boolean" -> "bool"
    [] OTHER -> "str"

\* schema.type when it is declared as a string, "" otherwise
DeclaredType(p) ==
  IF HasKey(p, "schema") /\ IsMap(Lookup(p, "schema")) /\ HasKey(Lookup(p, "schema"), "type")
     /\ IsStr(Lookup(Lookup(p, "schema"), "type"))
  THEN Join(Lookup(Lookup(p, "schema"), "type").v)
  ELSE ""

SchemaIsMapping(p) == HasKey(p, "schema") => IsMap(Lookup(p, "schema"))

\* C7: for every parameter object whose schema, when present, is a mapping, the
\* inferred type is a function of schema.type alone: integer -> int, number ->
\* float, boolean -> bool, and str when there is no schema, no type, or any
\* other type; name, in, required and a top-level type field change nothing.
C7_TypeTable ==
  pc = "typed" /\ SchemaIsMapping(param) => ptype = TypeTable(DeclaredType(param))

C7_Witness ==
  /\ pc = "typed"
  /\ HasKey(param, "in") /\ IsText(Lookup(param, "in"), "path")
  /\ HasKey(param, "type")
  /\ DeclaredType(param) = "number"
  /\ ptype = "float"

\* C10: resolve_reference removes only the leading "#/" of the pointer and
\* indexes the document by each remaining slash-separated segment exactly as
\* written (so pointers that differ after the "#/" use different segment lists).
C10_LiteralSegments ==
  pc = "resolved" /\ Len(ref) >= 2 /\ ref[1] = "#" /\ ref[2] = "/" =>
    LET literal == Split(SubSeq(ref, 3, Len(ref)))
        w == Walk(doc, literal, 1)
    IN  /\ resolved.parts = literal
        /\ w.st = "ok" => resolved.obj = w.obj

\* ------------------------------------------------------------ claims C11, C12
\* an operation with every field the builder reads in the shape it reads it
CompleteOperation(op) ==
  /\ IsMap(op)
  /\ HasKey(op, "description") => IsStr(Lookup(op, "description"))
  /\ HasKey(op, "parameters") => Lookup(op, "parameters").k = "list"

\* C11: an incomplete parameter or operation entry (a parameter without a
\* name, a parameter that is no mapping, a null schema, a null operation or
\* description) never ends the run: the tool text is produced and every
\* eligible operation that is complete itself is in it.
C11_IncompleteEntriesAreLocal ==
  pc = "generated" /\ WellFormedPaths(doc) /\ doc = WithoutUnresolvable(doc) =>
    /\ result.st = "ok"
    /\ \A i \in 1..Len(Entries(doc)) :
         Eligible(Entries(doc)[i]) /\ CompleteOperation(Entries(doc)[i].op) =>
           \E j \in 1..Len(result.tools) :
             ToolSignatures(result.tools)[j] = Signature(Entries(doc)[i])

\* the object a parameter entry declares: itself, or the object its pointer
\* leads to
Declared(d, e) ==
  IF IsMap(e) /\ HasKey(e, "$ref")
  THEN (IF Walk(d, Split(Strip(Lookup(e, "$ref").v)), 1).st = "ok"
        THEN Walk(d, Split(Strip(Lookup(e, "$ref").v)), 1).obj ELSE Null)
  ELSE e

Named(d, e) == IsMap(Declared(d, e)) /\ HasKey(Declared(d, e), "name")

NameAndType(d, e) ==
  <<Format(Lookup(Declared(d, e), "name")), TypeTable(DeclaredType(Declared(d, e)))>>

\* the "name: type" pairs of the entries of an operation that declare a name,
\* in declaration order
NamedParams(d, op) ==
  IF ~HasKey(op, "parameters") THEN <<>>
  ELSE LET named == SelectSeq(Iterate(Lookup(op, "parameters")).items, LAMBDA e : Named(d, e))
       IN  [i \in 1..Len(named) |-> NameAndType(d, named[i])]

EligibleEntries(d) == SelectSeq(Entries(d), Eligible)

\* C12: the parameter list of every emitted tool is the "name: type" pairs of
\* the operation's parameters that were not skipped, in declaration order,
\* followed by the single entry ctx: Context; with no parameter kept the list
\* is that entry alone.
C12_ParametersInOrderThenCtx ==
  pc = "generated" /\ result.st = "ok" =>
    /\ Len(result.tools) = Len(EligibleEntries(doc))
    /\ \A i \in 1..Len(result.tools) :
         /\ result.tools[i].params =
              Append(NamedParams(doc, EligibleEntries(doc)[i].op), CtxParam)
         /\ Count(result.tools[i].params, CtxParam) = 1

\* a skipped entry between two kept ones
C12_Witness ==
  /\ pc = "generated" /\ result.st = "ok"
  /\ doc = ParamDoc(<<PLimit, PNoName, PRefId>>)
  /\ result.warn = 1
  /\ result.tools[1].params = << <<"limit", "int">>, <<"id", "int">>, CtxParam >>

\* ------------------------------------------------------------ claims C13, C14
\* the entries of components.schemas, when the document has them
SchemasOf(d) ==
  IF HasKey(d, "components") /\ IsMap(Lookup(d, "components"))
     /\ HasKey(Lookup(d, "components"), "schemas")
     /\ IsMap(Lookup(Lookup(d, "components"), "schemas"))
  THEN Lookup(Lookup(d, "components"), "schemas").v
  ELSE <<>>

RECURSIVE Canon(_)
\* a value with the order of its keys forgotten
Canon(x) ==
  CASE x.k = "map" -> [k |-> "map", v |-> {<<x.v[i][1], Canon(x.v[i][2])>> : i \in 1..Len(x.v)}]
    [] x.k = "list" -> [k |-> "list", v |-> [i \in 1..Len(x.v) |-> Canon(x.v[i])]]
    [] OTHER -> x

\* C13: the resources a run returns are one resource api://info, first, then
\* one per entry of components.schemas in document order, each with uri
\* schema://<name>, title "Get the <name> schema definition" and the schema as
\* body; without components or schemas there is the api://info resource only.
C13_InfoThenOnePerSchema ==
  pc = "resources" /\ resources.st = "ok" =>
    /\ Len(resources.list) = 1 + Len(SchemasOf(doc))
    /\ resources.list[1].uri = "api://info"
    /\ \A i \in 1..Len(SchemasOf(doc)) :
         /\ resources.list[i + 1].uri = "schema://" \o SchemasOf(doc)[i][1]
         /\ resources.list[i + 1].doc =
              "Get the " \o SchemasOf(doc)[i][1] \o " schema definition"
         /\ Canon(resources.list[i + 1].body) = Canon(SchemasOf(doc)[i][2])

C13_Witness ==
  /\ pc = "resources" /\ resources.st = "ok"
  /\ Len(resources.list) = 3
  /\ resources.list[2].uri = "schema://Item"
  /\ resources.list[3].uri = "schema://Error"
  /\ resources.list[2].body # ItemSchema

InfoOf(d) == IF HasKey(d, "info") THEN Lookup(d, "info") ELSE EmptyMap

\* C14: in every implementation the API-info resource carries info.title,
\* info.version and the sanitized info.description, or "API", "1.0.0" and
\* "API description" when absent; the description has no line break and no
\* double quote without a backslash before it.
C14_InfoResourceSanitized ==
  pc = "resources" /\ resources.st = "ok" =>
    LET body == resources.list[1].body
        info == InfoOf(doc)
    IN  /\ body.title = (IF HasKey(info, "title") THEN Lookup(info, "title").v ELSE <<"API">>)
        /\ body.version =
             (IF HasKey(info, "version") THEN Lookup(info, "version").v ELSE <<"1.0.0">>)
        /\ HasKey(info, "description") /\ IsStr(Lookup(info, "description")) =>
             body.description = CharwiseImage(Lookup(info, "description").v)
        /\ ~HasKey(info, "description") => body.description = <<"API description">>
        /\ ~Occurs(body.description, NL)
        /\ \A i \in 1..Len(body.description) :
             body.description[i] = QUOTE => i > 1 /\ body.description[i - 1] = BSLASH

\* ------------------------------------------------------------ claims C15-C20
\* C15: the project identifiers of any runs against the same output root with
\* the same API title are pairwise distinct.
C15_DistinctIdentifiers ==
  \A i, j \in 1..Len(dirs) :
    i # j /\ dirs[i].output_dir = dirs[j].output_dir /\ dirs[i].api_name = dirs[j].api_name =>
      dirs[i].dir_name # dirs[j].dir_name

\* the created directory is output_dir joined with openapi-mcp-<s>-<u>, u the
\* first eight characters of a UUID, and was requested once, as that path
CreatedAs(s) ==
  /\ \E u \in UUIDs :
       project_dir = PathJoin(args.output_dir, <<"openapi-mcp-">> \o s \o <<"-", u.head>>)
  /\ Len(Called("makedirs")) = 1
  /\ Called("makedirs")[1].path = project_dir

\* the <s> part of the name of the created directory
NamePart == SubSeq(Basename(project_dir), 2, Len(Basename(project_dir)) - 2)

LowerCased(c) == IF c = "A" THEN "a" ELSE c

\* C16 (as claimed): create_project_directory returns output_dir joined with
\* openapi-mcp-<s>-<u>, <s> the api_name lower-cased with every character
\* that is not alphanumeric replaced by one '-', as long as api_name, and <u>
\* the first 8 characters of the UUID; it requests that path once.
C16_DirectoryName ==
  pc = "created" /\ calls # <<>> =>
    /\ CreatedAs(NamePart)
    /\ Len(NamePart) = Len(args.api_name)
    /\ \A i \in 1..Len(NamePart) :
         NamePart[i] = IF IsAlnum(LowerCased(args.api_name[i]))
                       THEN LowerCased(args.api_name[i]) ELSE "-"

\* C16 (amended): the same with <s> as long as the lower-cased api_name, which
\* is longer than api_name when a character lower-cases to two.
C16_DirectoryNameOfLowered ==
  pc = "created" /\ calls # <<>> =>
    /\ CreatedAs(NamePart)
    /\ Len(NamePart) = Len(Lower(args.api_name))
    /\ \A i \in 1..Len(NamePart) :
         NamePart[i] = IF IsAlnum(Lower(args.api_name)[i])
                       THEN Lower(args.api_name)[i] ELSE "-"

C16_Witness ==
  /\ pc = "created"
  /\ args.api_name = <<SP, "-">>
  /\ args.output_dir = <<"out">>
  /\ project_dir = <<"out", "/", "openapi-mcp-", "-", "-", "-", "518d0db5">>
  /\ calls = <<[op |-> "makedirs", exist_ok |-> TRUE, path |-> project_dir]>>

\* the last component of a path: what follows its last separator
LastComponent(path) ==
  LET k == CHOOSE n \in 0..Len(path) :
             /\ \A i \in (n + 1)..Len(path) : path[i] # "/"
             /\ n = 0 \/ path[n] = "/"
  IN  [i \in 1..(Len(path) - k) |-> path[k + i]]

IsUpperChar(c) == c \in {"A", I_DOT}

\* C17 (as claimed): container_name is the project identifier, image_name the
\* identifier lower-cased and project_name the identifier with every '-'
\* replaced by '_'; project_name has no '-', image_name no upper-case character.
C17_DerivedNames ==
  context # None =>
    LET identifier == LastComponent(project_dir)
    IN  /\ context.container_name = identifier
        /\ context.image_name = Lower(identifier)
        /\ context.project_name =
             [i \in 1..Len(identifier) |-> IF identifier[i] = "-" THEN "_" ELSE identifier[i]]
        /\ ~Occurs(context.project_name, "-")
        /\ \A i \in 1..Len(context.image_name) : ~IsUpperChar(context.image_name[i])

\* C17 (amended): project_name is the lower-cased identifier with every '-'
\* replaced by '_'.
C17_DerivedNamesLowered ==
  context # None =>
    LET identifier == LastComponent(project_dir)
        lowered == Lower(identifier)
    IN  /\ context.container_name = identifier
        /\ context.image_name = lowered
        /\ context.project_name =
             [i \in 1..Len(lowered) |-> IF lowered[i] = "-" THEN "_" ELSE lowered[i]]
        /\ ~Occurs(context.project_name, "-")
        /\ \A i \in 1..Len(context.image_name) : ~IsUpperChar(context.image_name[i])

C17_Witness ==
  /\ context # None
  /\ project_dir = <<"out", "/", "A", "-", "b">>
  /\ context.container_name = <<"A", "-", "b">>
  /\ context.image_name = <<"a", "-", "b">>
  /\ context.project_name = <<"a", "_", "b">>

\* the url of the first declared server, "" without one
FirstServerUrl(d) ==
  IF HasKey(d, "servers") /\ Lookup(d, "servers").k = "list" /\ Lookup(d, "servers").v # <<>>
     /\ HasKey(Lookup(d, "servers").v[1], "url")
  THEN Lookup(Lookup(d, "servers").v[1], "url").v
  ELSE <<>>

\* C18: api_url of the context is the URL supplied when one was supplied,
\* whatever the servers are; otherwise the url of the first server, and "" with
\* no servers, an empty list, or a first server without url. Later servers are
\* never used.
C18_EffectiveUrl ==
  context # None =>
    context.api_url = IF args.api_url # <<>> THEN args.api_url ELSE FirstServerUrl(doc)

C18_Witness ==
  /\ context # None
  /\ args.api_url = <<>>
  /\ HasKey(doc, "servers")
  /\ Len(Lookup(doc, "servers").v) = 2
  /\ context.api_url = <<"http://first">>

ContextKeys ==
  {"api_name", "api_url", "auth_type", "api_token", "api_username", "api_password",
   "container_name", "image_name", "project_name", "mcp_server_name",
   "tool_definitions", "resource_definitions"}

\* C19: every context handed to the renderer has exactly the twelve keys;
\* api_name and api_token are the values passed in, mcp_server_name is
\* "<api_name> MCP Server", and the two definition texts are what the two
\* builders give for the document.
C19_ContextKeys ==
  /\ \A i \in 1..Len(calls) : calls[i].op = "render" => calls[i].context = context
  /\ context # None =>
       /\ DOMAIN context = ContextKeys
       /\ context.api_name = args.api_name
       /\ context.api_token = args.api_token
       /\ Join(context.mcp_server_name) = Join(args.api_name) \o " MCP Server"
       /\ context.tool_definitions = generate_tool_definitions(doc, FALSE).tools
       /\ context.resource_definitions = generate_resource_definitions(doc, FALSE).list

C19_Witness ==
  /\ pc = "done"
  /\ args.impl = "class"
  /\ calls[Len(calls) - 3].op = "render"
  /\ calls[Len(calls) - 3].context.api_name = FakeApi
  /\ calls[Len(calls) - 3].context.auth_type = "basic"
  /\ Len(calls[Len(calls) - 3].context.tool_definitions) = 1
  /\ Len(calls[Len(calls) - 3].context.resource_definitions) = 2

ClaimedFiles ==
  <<"Dockerfile", "docker.sh", ".env.sh", "mcp_server.py", "requirements.txt", "pyproject.toml">>

ClaimedExecutables == {"docker.sh", ".env.sh", "mcp_server.py"}

Positions(op) == {i \in 1..Len(calls) : calls[i].op = op}

Inside(path, file) ==
  /\ LastComponent(path) = <<file>>
  /\ path \in {project_dir \o <<file>>, project_dir \o <<"/", file>>}

\* C20: the render requests of a run are Dockerfile, docker.sh, .env.sh,
\* mcp_server.py, requirements.txt, pyproject.toml in this order, once each,
\* for files directly inside the project directory and with the same context;
\* both builders run before the first render; the permission changes to 0o755
\* come after all six renders, on docker.sh, .env.sh and mcp_server.py only.
C20_RenderOrder ==
  /\ Len(Called("render")) <= Len(ClaimedFiles)
  /\ \A i \in 1..Len(Called("render")) :
       /\ Inside(Called("render")[i].path, ClaimedFiles[i])
       /\ Called("render")[i].context = Called("render")[1].context
  /\ Positions("render") # {} =>
       /\ Cardinality(Positions("generate_tool_definitions")) = 1
       /\ Cardinality(Positions("generate_resource_definitions")) = 1
       /\ \A b \in Positions("generate_tool_definitions")
                   \cup Positions("generate_resource_definitions"),
             r \in Positions("render") : b < r
  /\ Positions("chmod") # {} =>
       /\ Len(Called("render")) = Len(ClaimedFiles)
       /\ \A r \in Positions("render"), c \in Positions("chmod") : r < c
  /\ \A i \in 1..Len(Called("chmod")) :
       /\ Called("chmod")[i].mode = "0o755"
       /\ \E f \in ClaimedExecutables : Inside(Called("chmod")[i].path, f)
  /\ pc = "done" =>
       /\ Len(Called("render")) = Len(ClaimedFiles)
       /\ {LastComponent(Called("chmod")[i].path) : i \in 1..Len(Called("chmod"))}
            = {<<f>> : f \in ClaimedExecutables}
       /\ Len(Called("chmod")) = Cardinality(ClaimedExecutables)

C20_Witness ==
  /\ pc = "done"
  /\ Len(calls) = 12
  /\ calls[1].op = "makedirs"
  /\ calls[9].op = "render" /\ calls[9].template = "pyproject.toml"
  /\ calls[12].op = "chmod" /\ LastComponent(calls[12].path) = <<"mcp_server.py">>

\* ------------------------------------------------------------ claims C21, C22, C25
\* a loader call has been made
HasLoaded == pc \in {"parsed_file", "start", "exited", "failed", "created", "tools_built",
                     "resources_built", "render", "chmod", "done"} /\ openapi_file # None

YamlLoaders == {"parse_openapi_spec", "OpenAPISpecParser"}

\* the fatal conditions: the path cannot be read as text, or the text is no
\* YAML mapping
Fatal(f) == f.state # "text" \/ f.yaml = InvalidYaml \/ ~IsMap(f.yaml)

\* C21: when the path does not exist, the bytes are not UTF-8, or the content
\* is invalid YAML or parses to something other than a mapping, the loader
\* prints a diagnostic and exits with status 1 without returning; in every
\* other case it returns a mapping.
C21_FatalConditionsExit ==
  (HasLoaded /\ load.parser \in YamlLoaders /\ ~load.patched) =>
    IF Fatal(openapi_file)
    THEN load.st = "exit" /\ load.exits = <<1>> /\ load.printed >= 1
    ELSE load.st = "returned" /\ IsMap(load.value)

HasKeywords(text) == \A n \in 1..Len(Keywords) : \E i \in 1..Len(text) : text[i] = Keywords[n]

\* the four calls of the tests that patch sys.exit
PatchedTestCall ==
  /\ HasLoaded /\ load.patched
  /\ \/ openapi_file.state = "missing"
     \/ load.parser = "OpenAPISpecParser" /\ openapi_file.state = "text"
          /\ openapi_file.yaml = InvalidYaml
     \/ load.parser = "TypeScriptOpenAPIParser" /\ openapi_file.state = "text"
          /\ ~HasKeywords(openapi_file.text)

\* C22: with sys.exit patched by a recording stub, a parser called on a path
\* that does not exist, OpenAPISpecParser.parse called on invalid YAML and
\* TypeScriptOpenAPIParser.parse called on a text without the keywords call
\* exit exactly once, with status 1, and raise nothing.
C22_ExitCalledOnce == PatchedTestCall => (load.exits = <<1>> /\ load.st # "raised")

\* a quoted value follows the "title:" at i: only spaces up to the opening
\* quote at j, and the closing quote at k is the nearest one on that line
QuotedAt(s, i, j, k) ==
  /\ s[i] = "title:" /\ i < j /\ j < k
  /\ \A n \in (i + 1)..(j - 1) : s[n] \in {SP, NL}
  /\ s[j] \in {APOS, QUOTE} /\ s[k] \in {APOS, QUOTE}
  /\ \A n \in (j + 1)..(k - 1) : s[n] \notin {APOS, QUOTE, NL}

\* the quoted values that follow a "title:", with the position of the "title:"
QuotedTitles(s) ==
  {<<i, SubSeq(s, j + 1, k - 1)>> :
     <<i, j, k>> \in {t \in (1..Len(s)) \X (1..Len(s)) \X (1..Len(s)) :
                        QuotedAt(s, t[1], t[2], t[3])}}

Leftmost(titles) == (CHOOSE t \in titles : \A u \in titles : t[1] <= u[1])[2]

\* the first non-empty quoted value following "title:"
FirstNonEmptyTitle(s) ==
  LET titles == {t \in QuotedTitles(s) : t[2] # <<>>}
  IN  IF titles = {} THEN SampleTitle ELSE Leftmost(titles)

\* the first quoted value following "title:", when it is not empty
FirstTitleUnlessEmpty(s) ==
  LET titles == QuotedTitles(s)
  IN  IF titles = {} \/ Leftmost(titles) = <<>> THEN SampleTitle ELSE Leftmost(titles)

\* TypeScriptOpenAPIParser.parse has returned from a text that holds the keywords
TsParsed ==
  /\ HasLoaded /\ load.parser = "TypeScriptOpenAPIParser" /\ load.st = "returned"
  /\ HasKeywords(openapi_file.text)

\* the document of the TypeScript parser, with a given title
IsTsStub(d, title) ==
  /\ IsMap(d) /\ HasKey(d, "openapi") /\ HasKey(d, "info") /\ HasKey(d, "paths")
  /\ Lookup(d, "openapi") = S(<<"3.0.0">>)
  /\ Lookup(d, "paths") = EmptyMap
  /\ Lookup(Lookup(d, "info"), "version") = S(<<"1.0.0-ts-stub">>)
  /\ Lookup(Lookup(d, "info"), "title") = S(title)
  /\ \A m \in BOOLEAN : LET r == generate_tool_definitions(d, m)
                        IN  r.st = "ok" /\ r.tools = <<>>

\* C25: on a readable file that holds "openapi:", "info:" and "title:" the
\* TypeScript parser returns openapi "3.0.0", version "1.0.0-ts-stub", empty
\* paths and the first non-empty quoted value following "title:" as the title
\* ("Sample TS API" when there is none); no tool is built from it.
C25_TsStubTitle == TsParsed => IsTsStub(load.value, FirstNonEmptyTitle(openapi_file.text))

\* C25, amended: the title is the first quoted value following a "title:" when
\* that value is not empty, and "Sample TS API" otherwise.
C25_TsStubFirstTitle ==
  TsParsed => IsTsStub(load.value, FirstTitleUnlessEmpty(openapi_file.text))

\* C25 witness: a title taken from the second "title:" of the text, the first
\* being followed by no quote
C25_Witness ==
  /\ TsParsed
  /\ Len(openapi_file.text) >= 4
  /\ openapi_file.text[3] = "title:" /\ openapi_file.text[4] = "title:"
  /\ Lookup(Lookup(load.value, "info"), "title") = S(<<"x">>)

\* ------------------------------------------------------------ claims C23, C24
\* a run of generate_mcp_server has stopped
LegacyRunStopped == args # None /\ args.impl = "legacy" /\ pc \in {"done", "failed", "exited"}

\* C23: a run of generate_mcp_server either completes, with the directory
\* created and the six files rendered from one context, or ends on a fatal
\* loader condition before anything is created; it never stops with an empty
\* or partly written project directory.
C23_AtomicRuns ==
  LegacyRunStopped =>
    \/ /\ pc = "done"
       /\ Len(Called("makedirs")) = 1 /\ Len(Called("render")) = 6
       /\ \A i \in 1..6 : Called("render")[i].context = context
    \/ /\ pc \in {"failed", "exited"}
       /\ load.st # "returned" /\ calls = <<>>

\* C24: no builder changes the document, however often and in whatever order
\* the builders run, and a builder run again returns what it returned before.
C24_DocumentUnchanged ==
  [][/\ pc # "launch" => doc' = doc
     /\ (pc = "generated" /\ pc' = "generated" /\ result'.k = result.k) => result' = result
     /\ (pc = "resources" /\ pc' = "resources" /\ resources'.k = resources.k)
          => resources' = resources]_vars

\* C24 witness: the tool builder has resolved a pointer entry, and the document
\* still holds the pointer
C24_Witness ==
  /\ pc = "generated" /\ doc = ParamDoc(<<PRefId>>)
  /\ result.st = "ok" /\ Len(result.tools) = 1
  /\ Len(result.tools[1].params) = 2

\* ------------------------------------------------------------ claim C26
\* a pointer to a component that is itself only a pointer
ChainedPointer(d, e) ==
  /\ PointsToComponent(d, e)
  /\ IsMap(Component(d, e)) /\ HasKey(Component(d, e), "$ref")
  /\ ~HasKey(Component(d, e), "name")

WithoutChained(d) ==
  IF ~WellFormedPaths(d) THEN d
  ELSE LET paths == Lookup(d, "paths").v
           Kept(op) ==
             IF HasParamList(op)
             THEN SetKey(op, "parameters",
                    L(SelectSeq(Lookup(op, "parameters").v, LAMBDA e : ~ChainedPointer(d, e))))
             ELSE op
           Item(item) == M([j \in 1..Len(item.v) |-> <<item.v[j][1], Kept(item.v[j][2])>>])
       IN  SetKey(d, "paths", M([i \in 1..Len(paths) |-> <<paths[i][1], Item(paths[i][2])>>]))

ChainedCount(d) ==
  Cardinality({pos \in ParamPositions(d) : ChainedPointer(d, ParamAt(d, pos))})

\* C26: a pointer is walked once, segment by segment, and a $ref in the object
\* reached is not followed: resolving a pointer to a component that is itself a
\* pointer (to another component or to itself) ends with that component, and
\* the tool builder ends too, skipping the parameter with a warning and giving
\* the text the document without that entry gives.
C26_ChainedPointerSkipped ==
  pc = "generated" =>
    /\ \A pos \in ParamPositions(doc) :
         ChainedPointer(doc, ParamAt(doc, pos)) =>
           /\ ResolveWalk(doc, Lookup(ParamAt(doc, pos), "$ref")).st = "ok"
           /\ ResolveWalk(doc, Lookup(ParamAt(doc, pos), "$ref")).obj
                = Component(doc, ParamAt(doc, pos))
           /\ Len(ResolveWalk(doc, Lookup(ParamAt(doc, pos), "$ref")).parts) = 3
    /\ ChainedCount(doc) > 0 =>
         /\ SameOutput(result, generate_tool_definitions(WithoutChained(doc), Modular))
         /\ result.st = "ok" => result.warn >= ChainedCount(doc)

\* C26 witness: a pointer to the component that points to itself and a pointer
\* to a pointer, both skipped
C26_Witness ==
  /\ pc = "generated" /\ doc = ParamDoc(<<PRefSelf, PRefChain>>)
  /\ result.st = "ok" /\ result.warn = 2
  /\ result.tools[1].params = <<CtxParam>>

\* ------------------------------------------------------------ claims C27-C30
\* C27: the context of generate_mcp_server has auth_type "bearer" and empty
\* api_username and api_password whatever was passed, so runs that differ in
\* these three arguments only have the same context; generate_project_files
\* copies the three arguments.
C27_LegacyIgnoresCredentials ==
  context # None =>
    IF args.impl = "legacy"
    THEN /\ context.auth_type = "bearer"
         /\ context.api_username = "" /\ context.api_password = ""
         /\ \A c \in Credentials :
              TemplateContext(WithCredentials(args, c), project_dir, context.api_url, built)
                = context
    ELSE /\ context.auth_type = args.auth_type
         /\ context.api_username = args.api_username
         /\ context.api_password = args.api_password

\* C27 witness: generate_mcp_server called with basic credentials has rendered
\* with bearer and no credentials
C27_Witness ==
  /\ pc = "done" /\ args.impl = "legacy"
  /\ args.auth_type = "basic" /\ args.api_username = "user" /\ args.api_password = "secret"
  /\ context.auth_type = "bearer" /\ context.api_username = ""

\* the operation a tool was made from, read from the document
OwnOperation(d, t) == Lookup(Lookup(Lookup(d, "paths"), t.path), t.method)

\* the "name: type" pairs the entries of a parameters list declare
DeclaredPairs(d, list) ==
  IF list.k # "list" THEN {}
  ELSE {NameAndType(d, list.v[i]) : i \in {j \in 1..Len(list.v) : Named(d, list.v[j])}}

OwnPairs(d, op) ==
  IF HasKey(op, "parameters") THEN DeclaredPairs(d, Lookup(op, "parameters")) ELSE {}

\* the pairs declared by the parameters key of the path item of a tool
PathLevelPairs(d, t) ==
  IF HasKey(Lookup(Lookup(d, "paths"), t.path), "parameters")
  THEN DeclaredPairs(d, Lookup(Lookup(Lookup(d, "paths"), t.path), "parameters"))
  ELSE {}

\* C28: the parameters of a tool come from the parameters key of its own
\* operation only: every one but ctx is declared there, and a parameter that
\* only the path item declares is in no tool.
C28_OnlyOwnParameters ==
  pc = "generated" /\ result.st = "ok" =>
    \A i \in 1..Len(result.tools) :
      /\ \A n \in 1..(Len(result.tools[i].params) - 1) :
           result.tools[i].params[n] \in OwnPairs(doc, OwnOperation(doc, result.tools[i]))
      /\ \A n \in 1..Len(result.tools[i].params) :
           result.tools[i].params[n] \in PathLevelPairs(doc, result.tools[i])
             => result.tools[i].params[n] \in OwnPairs(doc, OwnOperation(doc, result.tools[i]))

\* C28 witness: a path item with its own parameters key and an operation on
\* the templated path, neither parameter in a tool
C28_Witness ==
  /\ pc = "generated" /\ result.st = "ok"
  /\ doc = Document(PathItem("/items", << <<"parameters", L(<<PPlain>>)>>,
                                          <<"get", OpGetItems>> >>))
  /\ result.tools[1].params = << <<"limit", "int">>, CtxParam >>

UpperCased(method) ==
  [get |-> "GET", post |-> "POST", put |-> "PUT", delete |-> "DELETE", patch |-> "PATCH"][method]

\* the description the claim gives a tool
ClaimedDescription(t, op) ==
  IF ~HasKey(op, "description") THEN CharwiseImage(<<UpperCased(t.method), SP, t.path>>)
  ELSE IF IsStr(Lookup(op, "description")) THEN CharwiseImage(Lookup(op, "description").v)
  ELSE <<>>

\* C29: the description of a tool is the sanitized description of its
\* operation, or the sanitized "<METHOD> <path>" when the operation has none,
\* and the same text is the decorator argument and the docstring.
C29_DescriptionDefault ==
  pc = "generated" /\ result.st = "ok" =>
    \A i \in 1..Len(result.tools) :
      /\ result.tools[i].description
           = ClaimedDescription(result.tools[i], OwnOperation(doc, result.tools[i]))
      /\ result.tools[i].docstring = result.tools[i].description

\* C29 witness: an operation without description, and one with a newline and
\* quotes in its description
C29_Witness ==
  /\ pc = "generated" /\ result.st = "ok" /\ Len(result.tools) = 2
  /\ result.tools[1].description = <<"GET", SP, "/items">>
  /\ result.tools[1].docstring = <<"GET", SP, "/items">>
  /\ ~HasKey(OwnOperation(doc, result.tools[1]), "description")
  /\ result.tools[2].description = <<"Create", SP, BSLASH, QUOTE, "item", BSLASH, QUOTE>>

\* the path of a directory create_project_directory has asked for
PathOf(d) == PathJoin(d.output_dir, d.dir_name)

\* the directory asked for last had been asked for by an earlier run
Repeated(ds) == \E i \in 1..(Len(ds) - 1) : PathOf(ds[i]) = PathOf(ds[Len(ds)])

\* C30: create_project_directory does not detect a repeated identifier: asked
\* for a directory an earlier run made, it succeeds and returns that path, and
\* the run renders its files over those of the earlier run.
C30_CollisionUndetected ==
  [][/\ (Len(dirs') > Len(dirs) /\ Repeated(dirs')) =>
          /\ pc' = "created"
          /\ project_dir' = PathOf(dirs'[Len(dirs')])
          /\ calls'[Len(calls')].exist_ok
     /\ (/\ pc = "render" /\ pc' # "failed" /\ dirs # <<>> /\ Repeated(dirs)
         /\ project_dir = PathOf(dirs[Len(dirs)])) =>
          /\ calls'[Len(calls')].path \in files
          /\ files' = files]_vars

\* C30 witness: two runs were given the same directory and both completed;
\* the directory holds six files
C30_Witness ==
  /\ pc = "done" /\ Len(dirs) = 2 /\ PathOf(dirs[1]) = PathOf(dirs[2])
  /\ project_dir = PathOf(dirs[2])
  /\ Len(Called("render")) = 6
  /\ Cardinality(files) = 6

Init == InitDocument \/ InitSanitize \/ InitResolve \/ InitType \/ InitResources
  \/ InitProject \/ InitLoader

Next ==
  \/ GenerateToolsModular \/ GenerateToolsInline \/ Sanitize \/ Resolve \/ InferType
  \/ GenerateResourcesModular \/ GenerateResourcesInline
  \/ CreateProjectDirectory \/ UseProjectDirectory \/ BuildTools \/ BuildResources
  \/ BuildContext \/ Render \/ RenderFails \/ Chmod \/ NextRun
  \/ ParseOpenAPISpec \/ OpenAPISpecParserParse \/ TypeScriptParse \/ ParseSpec

Spec == Init /\ [][Next]_vars

====
